---- MODULE Spec2Model ----
(***************************************************************************)
(* State-machine model of the resumable scraping pipeline:                 *)
(*   utils.js     getStep / setStep        (checkpoint store)              *)
(*   pipeline.js  runGetDetailsStep        (Detail Fetch)                  *)
(*   enrich.js    enrichWithSirene         (Registry Enrichment)           *)
(*   enrich.js    enrichWithLinkedIn       (Social-Profile Discovery)      *)
(*   pipeline.js  runGetListStep           (List Fetch)                    *)
(*   main.js      main                     (the stages in order)           *)
(*   utils.js     convertToCsv             (the export)                    *)
(* Entity and principal ids "ENT-" + padStart(5) / "PER-" + padStart(5)     *)
(* are an injective rendering of the counter value; the model keeps the    *)
(* counter value itself (0 stands for "no id key").                        *)
(***************************************************************************)
EXTENDS Integers, Sequences, FiniteSets, TLC

VARIABLES disk, det, sir, lin, main, csv

vars == <<disk, det, sir, lin, main, csv>>

\* ------------------------------------------------------------------ bounds
MaxDetails == 3
MaxCand == 2
MaxDir == 2
\* Caps on the id counters: the registry supplies no further candidate or
\* dirigeant once a counter has reached its cap.
MaxEnt == 3
MaxPer == 2
MaxUrls == 2
MaxEnriched == 3
MaxLinks == 2
MaxPipeline == 2

\* --------------------------------------------------------------- utilities
Range(s) == {s[k] : k \in 1..Len(s)}

SeqsUpTo(S, n) == UNION {[1..k -> S] : k \in 0..n}

IsPrefix(s, t) == Len(s) <= Len(t) /\ SubSeq(t, 1, Len(s)) = s

RECURSIVE SumLen(_)
SumLen(s) == IF s = <<>> THEN 0 ELSE Len(Head(s).dirigeants) + SumLen(Tail(s))

RECURSIVE Flatten(_)
Flatten(s) == IF s = <<>> THEN <<>> ELSE Head(s) \o Flatten(Tail(s))

\* -------------------------------------------------------- checkpoint store
Stages == {"urls", "details", "enriched", "final"}

Absent == [st |-> "absent", recs |-> <<>>]
Torn == [st |-> "torn", recs |-> <<>>]
OkFile(recs) == [st |-> "ok", recs |-> recs]

\* getStep: the parsed file; [] when the file does not exist (ENOENT) and []
\* when reading or JSON.parse fails (the error is only printed).
getStep(f) == IF f.st = "ok" THEN f.recs ELSE <<>>

\* setStep, first half: fs.writeFile opens the file with flag 'w', which
\* truncates it; until the new text is completely written the file is not
\* parseable JSON.
setStepOpen(f) == Torn

\* Variant: the write goes nowhere and the file keeps what it held.
setStepLost(f, data) == f

\* setStep, second half: the whole JSON text of data is in the file.
setStepDone(f, data) == OkFile(data)

\* ------------------------------------------------------------ data domains
\* Values of the adapter-supplied website field: key missing, empty string
\* (what frenchFab.getDetails returns when the page has no button), a URL
\* with a non-web scheme, a URL with a path, and a URL that is already an
\* origin.
Websites == {"undefined", "", "ftp://x.fr/f", "https://x.fr/p", "https://x.fr/"}

\* JavaScript truthiness of a field value.
Truthy(v) == v \notin {"undefined", "", "null"}

\* new URL(value.includes('://') ? value : `https://${value}`) throws a
\* TypeError for the empty string.
UrlThrows(w) == w = ""

\* (new URL(...)).origin + '/'   (the origin of a non-web scheme is "null")
Origin(w) ==
    CASE w = "ftp://x.fr/f" -> "null/"
      [] w = "https://x.fr/p" -> "https://x.fr/"
      [] w = "https://x.fr/" -> "https://x.fr/"
      [] OTHER -> w

\* DetailRecords of the details checkpoint (nom, lien and the adapter's fields
\* that the enrichment reads).
Company(nom, lien, cp, web) ==
    [nom |-> nom, lien |-> lien, codePostal |-> cp, website |-> web]

Companies ==
    { Company("a", 1, "75001", "https://x.fr/p"),
      Company("b", 2, "75001", "ftp://x.fr/f"),
      Company("a", 3, "", "https://x.fr/"),
      Company("d", 4, "75001", "undefined"),
      Company("e", 5, "75001", "") }

\* A listing has pairwise distinct links (the link is the identity of a
\* SourceRecord), so the details lists drawn have pairwise distinct links;
\* names may repeat.
DistinctLinks(s) == \A m, n \in 1..Len(s) : m /= n => s[m].lien /= s[n].lien

DetailLists == {s \in SeqsUpTo(Companies, MaxDetails) : DistinctLinks(s)}

\* One registry candidate that passed the name filter: whether it carries a
\* siege object, and its dirigeants ("pp": personne physique with a kept role,
\* "pm": personne morale, "ex": personne physique with an excluded role).
DirKinds == {"pp", "pm", "ex"}

Candidates == [siege : BOOLEAN, dirigeants : SeqsUpTo(DirKinds, MaxDir)]

\* ------------------------- enrichWithSirene, the financial fields (enrich.js)
\* JavaScript values of the financial fields: a number, a label of the
\* headcount table, "", null, undefined and -Infinity (n is 0 where t is
\* neither "num" nor "label").
Num(n) == [t |-> "num", n |-> n]
LabelOf(code) == [t |-> "label", n |-> code]
JsEmpty == [t |-> "str", n |-> 0]
JsNull == [t |-> "null", n |-> 0]
JsUndefined == [t |-> "undefined", n |-> 0]
NegInfinity == [t |-> "-inf", n |-> 0]

\* The truth value of v in a condition.
JsTruthy(v) == (v.t = "num" /\ v.n /= 0) \/ v.t \in {"label", "-inf"}

\* v ?? w
Coalesce(v, w) == IF v.t \in {"null", "undefined"} THEN w ELSE v

\* The keys of a finances mapping, and Number(key).
YearKeys == {"2021", "2022", "2023"}

NumberOf(key) ==
    CASE key = "2021" -> 2021
      [] key = "2022" -> 2022
      [] key = "2023" -> 2023

\* String(v), the property name an access by v uses.
KeyOf(v) ==
    IF v.t = "num" THEN CHOOSE key \in YearKeys : NumberOf(key) = v.n
    ELSE "-Infinity"

\* The ca of one entry of the mapping (undefined: the entry has none).
CaValues == {JsUndefined, Num(0), Num(100), Num(200)}

\* d.finances: absent (has is FALSE), or a mapping from year keys to entries,
\* the empty mapping included.
FinancesValues ==
    {[has |-> FALSE, byYear |-> <<>>]} \cup
    {[has |-> TRUE, byYear |-> f] :
        f \in UNION {[K -> CaValues] : K \in SUBSET YearKeys}}

\* d.tranche_effectif_salarie: no code, a code of the table, a code the table
\* does not have.
TrancheCodes == {"null", "11", "XX"}

\* constants.TRANCHES_EFFECTIFS[code]: a static table from code to label.
TRANCHES_EFFECTIFS(code) == IF code = "11" THEN LabelOf(11) ELSE JsUndefined

\* The candidates as far as the financial fields read them.
FinCandidates ==
    [finances : FinancesValues, tranche_effectif_salarie : TrancheCodes]

\* Math.max(...numbers): -Infinity without arguments.
MathMax(numbers) ==
    IF numbers = {} THEN NegInfinity
    ELSE Num(CHOOSE m \in numbers : \A x \in numbers : x <= m)

\* const latestYear = d.finances ? Math.max(...Object.keys(d.finances).map(Number)) : null
LatestYear(d) ==
    IF d.finances.has
    THEN MathMax({NumberOf(key) : key \in DOMAIN d.finances.byYear})
    ELSE JsNull

\* d.finances[latestYear]?.ca
CaUnder(d, latestYear) ==
    IF KeyOf(latestYear) \in DOMAIN d.finances.byYear
    THEN d.finances.byYear[KeyOf(latestYear)]
    ELSE JsUndefined

\* finalCompany.sirene_ca = latestYear ? d.finances[latestYear]?.ca ?? "" : ""
SireneCa(d) ==
    LET latestYear == LatestYear(d)
    IN IF JsTruthy(latestYear) THEN Coalesce(CaUnder(d, latestYear), JsEmpty)
       ELSE JsEmpty

\* finalCompany.sirene_annee_ca = latestYear ?? ""
SireneAnneeCa(d) == Coalesce(LatestYear(d), JsEmpty)

\* finalCompany.sirene_effectifs = constants.TRANCHES_EFFECTIFS[...] ?? ""
SireneEffectifs(d) ==
    Coalesce(TRANCHES_EFFECTIFS(d.tranche_effectif_salarie), JsEmpty)

\* JSON.stringify of a value: a number that is not finite is written as null.
Stringified(v) == IF v.t = "-inf" THEN JsNull ELSE v

\* The financial fields of the match record of one candidate d: not yet
\* computed ("off", "cand"), as assigned ("derived"), as written to the
\* checkpoint ("saved").
FinOff ==
    [pc |-> "off", d |-> [finances |-> [has |-> FALSE, byYear |-> <<>>],
                          tranche_effectif_salarie |-> "null"],
     sirene_ca |-> JsUndefined, sirene_annee_ca |-> JsUndefined,
     sirene_effectifs |-> JsUndefined]

\* ----------------------- enrichWithSirene, the two label lookups (enrich.js)
\* The promise chains of Promise.all at lines 58-61.
Lookups == {"departement", "region"}

\* d.siege of the candidate: the codes the two requests are made with.
Sieges ==
    { [departement |-> "75", region |-> "11"],
      [departement |-> "69", region |-> "84"] }

\* What a request is answered with: the JSON object of the division, a JSON
\* object without code and nom (an error answer; response.ok is not tested),
\* or a body that is not JSON.
Bodies == {"object", "error", "text"}

\* The object of the division with the given code.
GeoObject(lookup, code) ==
    [code |-> code,
     nom |-> CASE code = "75" -> "Paris"
               [] code = "69" -> "Rhone"
               [] code = "11" -> "Ile-de-France"
               [] code = "84" -> "Auvergne-Rhone-Alpes"]

\* response.json() for a body that parses.
Parsed(lookup, body, siege) ==
    IF body = "object" THEN GeoObject(lookup, siege[lookup])
    ELSE [code |-> "undefined", nom |-> "undefined"]

\* Variant: the handlers return an empty object.
FallbackEmptyObject(lookup) == [code |-> "undefined", nom |-> "undefined"]

\* .catch(() => ({ code: "", nom: "" })) and .catch(() => ({ nom: "" }))
Fallback(lookup) ==
    IF lookup = "departement" THEN [code |-> "", nom |-> ""]
    ELSE [code |-> "undefined", nom |-> ""]

\* One chain: not started ("idle"), request under way ("fetching"), response
\* received ("response"), rejection on its way to the catch handler
\* ("thrown"), chain fulfilled with value ("fulfilled"). failed tells that the
\* request or the decoding threw.
ChainOff ==
    [st |-> "idle", body |-> "none", failed |-> FALSE,
     value |-> [code |-> "undefined", nom |-> "undefined"]]

\* The lookups of one candidate and the three fields assigned from them.
\* first is bookkeeping: the chain that was fulfilled first.
GeoOff ==
    [pc |-> "off", siege |-> [departement |-> "75", region |-> "11"],
     chain |-> [l \in Lookups |-> ChainOff], first |-> "none",
     siren_departement_code |-> "unset", sirene_departement |-> "unset",
     sirene_region |-> "unset"]

\* ------------------ enrichWithSirene, a registry that answers the same way
\* How the registry answers the search for a name, each time it is asked:
\* the request fails ("fail"), one candidate ("one"), two candidates ("two"),
\* or a candidate followed by one without a siege object ("throws").
Responses == {"fail", "one", "two", "throws"}

\* The names whose answer varies from registry to registry.
RegistryNames == {"a", "b"}

Registries == [RegistryNames -> Responses]

\* response.ok and a body that decodes, for the company's search.
RegistryOk(registry, company) ==
    company.nom \in RegistryNames => registry[company.nom] /= "fail"

\* data: the candidates that pass the name filter, in the registry's order.
RegistryData(registry, company) ==
    IF company.nom \in RegistryNames
    THEN CASE registry[company.nom] = "one" ->
                << [siege |-> TRUE, dirigeants |-> <<"pp">>] >>
           [] registry[company.nom] = "two" ->
                << [siege |-> TRUE, dirigeants |-> <<"pm">>],
                   [siege |-> TRUE, dirigeants |-> <<>>] >>
           [] registry[company.nom] = "throws" ->
                << [siege |-> TRUE, dirigeants |-> <<>>],
                   [siege |-> FALSE, dirigeants |-> <<>>] >>
           [] OTHER -> <<>>
    ELSE << [siege |-> TRUE, dirigeants |-> <<>>] >>

\* --------------------------------------------- enrichWithSirene (enrich.js)
\* The locals of one run. read, processed, fetches, writes, base and saved
\* are bookkeeping for the properties: the checkpoint as read at stage start,
\* the indices processed and the search requests made in this run, the
\* completed setStep calls of this run, the length of enrichedCompanies when
\* the current company was started, and the list known to be completely
\* written: the checkpoint as read at stage start, then the list of the last
\* completed setStep (saved outlives a kill; everything else is process
\* memory). last, lookup and idBase are bookkeeping too: the index of the
\* DetailRecord processed last in this run (0: none yet), how its lookup went
\* ("none": not processed, "nopostal": no postal code, "failed": the search
\* request or its decoding threw, "zero": no candidate passed the name
\* filter, "some": at least one did), the value of companyIdCounter when
\* it was started, the context logError was called with for it ("none": no
\* call), and what threw ("fetch": the search request or its decoding,
\* "siege": the candidate has no siege object, "url": new URL). fin holds
\* the financial fields of one candidate's match record, which the records
\* of enrichedCompanies leave out. pushed tells whether the candidate handled
\* last in the candidate loop was pushed, and holds its directors. geo holds
\* the label lookups of one candidate. registry is the registry at hand where
\* its answers are fixed; it is no part of the process and outlives a kill.
\* failedDone is bookkeeping that outlives runs and kills: the names whose
\* search request failed and whose placeholder was then completely written.
SirOff ==
    [pc |-> "off", i |-> 0, j |-> 0,
     companiesToEnrich |-> <<>>, enrichedCompanies |-> <<>>, doneNames |-> {},
     companyIdCounter |-> 0, dirigeantsIdCounter |-> 0,
     foundOneResult |-> FALSE,
     read |-> <<>>, processed |-> {}, fetches |-> <<>>, writes |-> 0, base |-> 0,
     saved |-> <<>>, last |-> 0, lookup |-> "none", idBase |-> 0,
     logged |-> "none", cause |-> "none", fin |-> FinOff,
     pushed |-> [has |-> FALSE, ds |-> <<>>], geo |-> GeoOff,
     registry |-> [n \in RegistryNames |-> "one"], failedDone |-> {}]


\* Variant: only the names of match records count as done.
DoneNamesOfMatches(enriched) ==
    {enriched[k].scrap_nom : k \in {n \in 1..Len(enriched) : enriched[n].sirene_siren /= "null"}}

\* Variant: no name counts as done.
DoneNamesOfNone(enriched) == {}

\* const doneNames = new Set(enrichedCompanies.map(item => item.scrap_nom))
DoneNamesOf(enriched) == {enriched[k].scrap_nom : k \in 1..Len(enriched)}

\* let companyIdCounter = enrichedCompanies.length
SeedCompanyId(enriched) == Len(enriched)

\* Variant: the principal counter seeded like the entity counter.
SeedDirigeantsIdByLength(enriched) == Len(enriched)

\* let dirigeantsIdCounter = enrichedCompanies.reduce(
\*     (acc, company) => acc + (company.dirigeants?.length || 0), 0)
SeedDirigeantsId(enriched) == SumLen(enriched)

\* d.dirigeants ?? []: each director with its kind and, standing for its
\* prenoms and nom, its position in the registry's list.
Dirigeants(ds) == [k \in 1..Len(ds) |-> [kind |-> ds[k], nom |-> k]]

\* Variant: the role filter is left out.
KeptDirigeantsAnyRole(ds) ==
    SelectSeq(Dirigeants(ds), LAMBDA x : x.kind \in {"pp", "ex"})

\* .filter(type_dirigeant === 'personne physique')
\* .filter(!ROLES_A_EXCLURE.includes(qualite))
KeptDirigeants(ds) == SelectSeq(Dirigeants(ds), LAMBDA x : x.kind = "pp")

\* .map(d => ({ id: "PER-" + ++dirigeantsIdCounter, ..., idEntreprise: uniqueID }))
Principals(ds, company, uniqueID, counter) ==
    [k \in 1..Len(KeptDirigeants(ds)) |->
        [id |-> counter + k, nom |-> KeptDirigeants(ds)[k].nom,
         entreprise |-> company.nom, idEntreprise |-> uniqueID]]

\* Variant: the website is copied as it is.
MatchRecordCopied(company, uniqueID, dirs) ==
    [id |-> uniqueID,
     scrap_nom |-> company.nom, scrap_lien |-> company.lien,
     scrap_codePostal |-> company.codePostal,
     scrap_website |-> company.website,
     sirene_siren |-> "siren", dirigeants |-> dirs]

\* The match record built for one candidate (provenance fields scrap_*, with
\* the website replaced by its origin).
MatchRecord(company, uniqueID, dirs) ==
    [id |-> uniqueID,
     scrap_nom |-> company.nom, scrap_lien |-> company.lien,
     scrap_codePostal |-> company.codePostal,
     scrap_website |-> Origin(company.website),
     sirene_siren |-> "siren", dirigeants |-> dirs]

\* Variant: the placeholder carries the website as a match record does.
PlaceholderNormalised(company) ==
    [id |-> 0,
     scrap_nom |-> company.nom, scrap_lien |-> company.lien,
     scrap_codePostal |-> company.codePostal,
     scrap_website |-> Origin(company.website),
     sirene_siren |-> "null", dirigeants |-> <<>>]

\* The placeholder built in the finally block (raw copy of the fields).
Placeholder(company) ==
    [id |-> 0,
     scrap_nom |-> company.nom, scrap_lien |-> company.lien,
     scrap_codePostal |-> company.codePostal,
     scrap_website |-> company.website,
     sirene_siren |-> "null", dirigeants |-> <<>>]

\* if (!scrap_website || !scrap_nom || !scrap_codePostal) continue;
Discarded(rec) ==
    ~Truthy(rec.scrap_website) \/ ~Truthy(rec.scrap_nom) \/ ~Truthy(rec.scrap_codePostal)

\* Variant: no placeholder for a company skipped for its missing postal code.
WithPlaceholderUnlessSkipped(enriched, company, found) ==
    IF found \/ ~Truthy(company.codePostal)
    THEN enriched ELSE Append(enriched, Placeholder(company))

\* Variant: the placeholder is pushed whatever was found.
WithPlaceholderAlways(enriched, company, found) ==
    Append(enriched, Placeholder(company))

\* if (!foundOneResult) { ... enrichedCompanies.push(placeholder) }
WithPlaceholder(enriched, company, found) ==
    IF found THEN enriched ELSE Append(enriched, Placeholder(company))

SirCompany == sir.companiesToEnrich[sir.i]

\* logError(sourceName, 'enrich:sirene', error, { nom: company.nom }, ...)
LogContext(company) == company.nom

\* Variant: a failed search request ends the stage.
AfterFetchRethrows(ok) == IF ok THEN "cand" ELSE "done"

\* Where the search request leads: the candidate loop, or (a throw inside the
\* try block) the catch block and then the finally block.
AfterFetch(ok) == IF ok THEN "cand" ELSE "finally"

\* getStep("details"), getStep("enriched"), doneNames, the two counters.
SireneStart ==
    /\ sir.pc \in {"off", "done"}
    /\ LET details == getStep(disk["details"])
           enriched == getStep(disk["enriched"])
       IN sir' = [SirOff EXCEPT
                    !.pc = "loop", !.i = 1, !.saved = enriched,
                    !.companiesToEnrich = details,
                    !.enrichedCompanies = enriched,
                    !.doneNames = DoneNamesOf(enriched),
                    !.companyIdCounter = SeedCompanyId(enriched),
                    !.dirigeantsIdCounter = SeedDirigeantsId(enriched),
                    !.read = enriched,
                    !.fetches = [k \in 1..Len(details) |-> 0],
                    !.idBase = SeedCompanyId(enriched),
                    !.base = Len(enriched),
                    !.registry = sir.registry,
                    !.failedDone = sir.failedDone]
    /\ UNCHANGED <<disk, det, lin, main, csv>>

\* if (doneNames.has(company.nom)) continue;
SireneSkip ==
    /\ sir.pc = "loop" /\ sir.i <= Len(sir.companiesToEnrich)
    /\ SirCompany.nom \in sir.doneNames
    /\ sir' = [sir EXCEPT !.i = @ + 1]
    /\ UNCHANGED <<disk, det, lin, main, csv>>

\* if (!company.codePostal) continue;   (inside try: the finally block runs)
SireneNoPostal ==
    /\ sir.pc = "loop" /\ sir.i <= Len(sir.companiesToEnrich)
    /\ SirCompany.nom \notin sir.doneNames
    /\ ~Truthy(SirCompany.codePostal)
    /\ sir' = [sir EXCEPT !.pc = "finally", !.foundOneResult = FALSE,
                          !.processed = @ \cup {sir.i},
                          !.last = sir.i, !.lookup = "nopostal",
                          !.logged = "none", !.cause = "none",
                          !.idBase = sir.companyIdCounter,
                          !.base = Len(sir.enrichedCompanies)]
    /\ UNCHANGED <<disk, det, lin, main, csv>>

\* The search request. ok = FALSE: fetch rejects, !response.ok, response.json()
\* or the name filter throws; the catch block logs and the finally block runs.
SireneFetch(ok) ==
    /\ sir.pc = "loop" /\ sir.i <= Len(sir.companiesToEnrich)
    /\ SirCompany.nom \notin sir.doneNames
    /\ Truthy(SirCompany.codePostal)
    /\ sir' = [sir EXCEPT !.pc = AfterFetch(ok),
                          !.logged = IF ok THEN "none" ELSE LogContext(SirCompany),
                          !.cause = IF ok THEN "none" ELSE "fetch",
                          !.j = 0, !.foundOneResult = FALSE,
                          !.processed = @ \cup {sir.i},
                          !.fetches[sir.i] = @ + 1,
                          !.last = sir.i,
                          !.lookup = IF ok THEN "zero" ELSE "failed",
                          !.idBase = sir.companyIdCounter,
                          !.base = Len(sir.enrichedCompanies)]
    /\ UNCHANGED <<disk, det, lin, main, csv>>

\* One iteration of for (let d of data).
SireneCandidate(d) ==
    /\ sir.pc = "cand" /\ sir.j < MaxCand
    /\ sir.companyIdCounter < MaxEnt
    /\ sir.dirigeantsIdCounter + Len(KeptDirigeants(d.dirigeants)) <= MaxPer
    /\ LET uniqueID == sir.companyIdCounter + 1
           dirs == Principals(d.dirigeants, SirCompany, uniqueID, sir.dirigeantsIdCounter)
           rec == MatchRecord(SirCompany, uniqueID, dirs)
       IN IF ~d.siege \/ UrlThrows(SirCompany.website)
          THEN \* d.siege.departement / new URL(...) throws: catch, then finally
               sir' = [sir EXCEPT !.companyIdCounter = uniqueID, !.pc = "finally",
                                  !.lookup = "some",
                                  !.pushed = [has |-> FALSE, ds |-> <<>>],
                                  !.logged = LogContext(SirCompany),
                                  !.cause = IF ~d.siege THEN "siege" ELSE "url"]
          ELSE IF Discarded(rec)
          THEN sir' = [sir EXCEPT !.companyIdCounter = uniqueID, !.j = @ + 1,
                                  !.lookup = "some",
                                  !.pushed = [has |-> FALSE, ds |-> <<>>]]
          ELSE sir' = [sir EXCEPT !.companyIdCounter = uniqueID, !.j = @ + 1,
                                  !.lookup = "some",
                                  !.pushed = [has |-> TRUE, ds |-> d.dirigeants],
                                  !.dirigeantsIdCounter = @ + Len(dirs),
                                  !.enrichedCompanies = Append(@, rec),
                                  !.foundOneResult = TRUE]
    /\ UNCHANGED <<disk, det, lin, main, csv>>

\* data is exhausted: the try block completes.
SireneCandidatesEnd ==
    /\ sir.pc = "cand"
    /\ sir' = [sir EXCEPT !.pc = "finally",
                          !.pushed = [has |-> FALSE, ds |-> <<>>]]
    /\ UNCHANGED <<disk, det, lin, main, csv>>

\* finally: placeholder when nothing was found, then setStep opens the file.
SireneFinally ==
    /\ sir.pc = "finally"
    /\ sir' = [sir EXCEPT !.pc = "writing",
                          !.enrichedCompanies =
                              WithPlaceholder(@, SirCompany, sir.foundOneResult)]
    /\ disk' = [disk EXCEPT !["enriched"] = setStepOpen(@)]
    /\ UNCHANGED <<det, lin, main, csv>>

\* setStep completes; delay(250); next company.
SireneSaved ==
    /\ sir.pc = "writing"
    /\ disk' = [disk EXCEPT !["enriched"] = setStepDone(@, sir.enrichedCompanies)]
    /\ sir' = [sir EXCEPT !.pc = "loop", !.i = @ + 1, !.writes = @ + 1,
                          !.saved = sir.enrichedCompanies,
                          !.failedDone = IF sir.cause = "fetch"
                                         THEN @ \cup {SirCompany.nom} ELSE @]
    /\ UNCHANGED <<det, lin, main, csv>>

\* The loop is over: the function returns.
SireneFinish ==
    /\ sir.pc = "loop" /\ sir.i > Len(sir.companiesToEnrich)
    /\ sir' = [sir EXCEPT !.pc = "done"]
    /\ UNCHANGED <<disk, det, lin, main, csv>>

\* The process is killed while the stage runs: its memory is lost, the files stay.
SireneKill ==
    /\ sir.pc \notin {"off", "done"}
    /\ sir' = [SirOff EXCEPT !.saved = sir.saved, !.registry = sir.registry,
                             !.failedDone = sir.failedDone]
    /\ UNCHANGED <<disk, det, lin, main, csv>>

\* The search request, answered as the registry at hand answers it.
ResumeFetch ==
    /\ sir.pc = "loop" /\ sir.i <= Len(sir.companiesToEnrich)
    /\ SireneFetch(RegistryOk(sir.registry, SirCompany))

\* The next candidate of the registry's answer.
ResumeCandidate ==
    /\ sir.pc = "cand"
    /\ sir.j < Len(RegistryData(sir.registry, SirCompany))
    /\ SireneCandidate(RegistryData(sir.registry, SirCompany)[sir.j + 1])

\* The registry's answer is exhausted.
ResumeCandidatesEnd ==
    /\ sir.pc = "cand"
    /\ sir.j = Len(RegistryData(sir.registry, SirCompany))
    /\ SireneCandidatesEnd

\* The records one pass of the loop body appends for a company, from
\* candidate j on, with found as foundOneResult (ids left at 0).
RECURSIVE BodyRecords(_, _, _, _)
BodyRecords(registry, company, j, found) ==
    LET data == RegistryData(registry, company)
    IN IF ~Truthy(company.codePostal) \/ ~RegistryOk(registry, company)
       THEN WithPlaceholder(<<>>, company, FALSE)
       ELSE IF j > Len(data)
       THEN WithPlaceholder(<<>>, company, found)
       ELSE IF ~data[j].siege \/ UrlThrows(company.website)
       THEN WithPlaceholder(<<>>, company, found)
       ELSE LET rec == MatchRecord(company, 0,
                           Principals(data[j].dirigeants, company, 0, 0))
            IN IF Discarded(rec)
               THEN BodyRecords(registry, company, j + 1, found)
               ELSE <<rec>> \o BodyRecords(registry, company, j + 1, TRUE)

\* The records of one run of the loop over details that starts on an empty
\* checkpoint and is not interrupted.
RECURSIVE RunOnce(_, _)
RunOnce(registry, details) ==
    IF details = <<>> THEN <<>>
    ELSE BodyRecords(registry, Head(details), 1, FALSE)
             \o RunOnce(registry, Tail(details))

\* Both fetch calls of the array literal are made before Promise.all is
\* awaited.
GeoStart ==
    /\ sir.geo.pc = "cand"
    /\ sir' = [sir EXCEPT !.geo.pc = "waiting",
                          !.geo.chain =
                              [l \in Lookups |-> [ChainOff EXCEPT !.st = "fetching"]]]
    /\ UNCHANGED <<disk, det, lin, main, csv>>

\* fetch of one chain is answered.
GeoResponds(l, body) ==
    /\ sir.geo.chain[l].st = "fetching"
    /\ sir' = [sir EXCEPT !.geo.chain[l].st = "response",
                          !.geo.chain[l].body = body]
    /\ UNCHANGED <<disk, det, lin, main, csv>>

\* fetch of one chain rejects.
GeoFetchRejects(l) ==
    /\ sir.geo.chain[l].st = "fetching"
    /\ sir' = [sir EXCEPT !.geo.chain[l].st = "thrown",
                          !.geo.chain[l].failed = TRUE]
    /\ UNCHANGED <<disk, det, lin, main, csv>>

\* .then(d => d.json()): the parsed body, or a rejection for a body that is
\* not JSON.
GeoJson(l) ==
    /\ sir.geo.chain[l].st = "response"
    /\ IF sir.geo.chain[l].body = "text"
       THEN sir' = [sir EXCEPT !.geo.chain[l].st = "thrown",
                               !.geo.chain[l].failed = TRUE]
       ELSE sir' = [sir EXCEPT
                      !.geo.chain[l].st = "fulfilled",
                      !.geo.chain[l].value =
                          Parsed(l, sir.geo.chain[l].body, sir.geo.siege),
                      !.geo.first = IF @ = "none" THEN l ELSE @]
    /\ UNCHANGED <<disk, det, lin, main, csv>>

\* .catch(() => ...): the chain is fulfilled with the fallback object.
GeoCatch(l) ==
    /\ sir.geo.chain[l].st = "thrown"
    /\ sir' = [sir EXCEPT !.geo.chain[l].st = "fulfilled",
                          !.geo.chain[l].value = Fallback(l),
                          !.geo.first = IF @ = "none" THEN l ELSE @]
    /\ UNCHANGED <<disk, det, lin, main, csv>>

\* Promise.all is fulfilled once both chains are.
GeoAll ==
    /\ sir.geo.pc = "waiting"
    /\ \A l \in Lookups : sir.geo.chain[l].st = "fulfilled"
    /\ sir' = [sir EXCEPT !.geo.pc = "resolved"]
    /\ UNCHANGED <<disk, det, lin, main, csv>>

\* Lines 77-79.
GeoAssign ==
    /\ sir.geo.pc = "resolved"
    /\ sir' = [sir EXCEPT
                 !.geo.pc = "assigned",
                 !.geo.siren_departement_code = sir.geo.chain["departement"].value.code,
                 !.geo.sirene_departement = sir.geo.chain["departement"].value.nom,
                 !.geo.sirene_region = sir.geo.chain["region"].value.nom]
    /\ UNCHANGED <<disk, det, lin, main, csv>>

\* Lines 72-83 for the candidate at hand.
FinancesDerived ==
    /\ sir.fin.pc = "cand"
    /\ sir' = [sir EXCEPT !.fin.pc = "derived",
                          !.fin.sirene_ca = SireneCa(sir.fin.d),
                          !.fin.sirene_annee_ca = SireneAnneeCa(sir.fin.d),
                          !.fin.sirene_effectifs = SireneEffectifs(sir.fin.d)]
    /\ UNCHANGED <<disk, det, lin, main, csv>>

\* setStep writes the record: the fields as JSON.stringify renders them.
FinancesSaved ==
    /\ sir.fin.pc = "derived"
    /\ sir' = [sir EXCEPT !.fin.pc = "saved",
                          !.fin.sirene_ca = Stringified(@),
                          !.fin.sirene_annee_ca = Stringified(@),
                          !.fin.sirene_effectifs = Stringified(@)]
    /\ UNCHANGED <<disk, det, lin, main, csv>>

\* ------------------------------------------ runGetDetailsStep (pipeline.js)
\* The locals of one run. read, called, consec and prevEnd are bookkeeping for
\* the properties: the details checkpoint as read at stage start, the indices
\* for which getDetails was called in this run, whether this run was started
\* right after a run that returned, and the checkpoint that run left. failed
\* and logged are the links whose getDetails call threw in this run and
\* those logError was called with (after a kill failed keeps the value of the
\* killed run until the next run starts); prevFailed is the set of links
\* whose call threw in the run before this one. written is the list of the
\* last setStep that completed, in this run or an earlier one. startSt is what
\* the details file was when this run read it (absent, torn or ok) and
\* prevWritten the list of the last completed setStep at that moment.
DetOff ==
    [pc |-> "off", i |-> 0,
     urlsToScrape |-> <<>>, detailsAlreadyDone |-> <<>>, doneLinks |-> {},
     read |-> <<>>, called |-> {}, consec |-> FALSE, prevEnd |-> <<>>,
     failed |-> {}, logged |-> {}, prevFailed |-> {}, written |-> <<>>,
     startSt |-> "absent", prevWritten |-> <<>>]

\* SourceRecords of the urls checkpoint.
SourceRecords ==
    { [nom |-> "a", lien |-> 1], [nom |-> "b", lien |-> 2], [nom |-> "a", lien |-> 3] }

UrlLists == SeqsUpTo(SourceRecords, MaxUrls)

\* What getDetails returns for a page (the fields the later stages read).
DetailFields ==
    { [codePostal |-> "75001", website |-> "https://x.fr/p"],
      [codePostal |-> "", website |-> ""] }

\* Variant: the set is built from a field the records do not have.
DoneLinksOfNone(details) == {}

\* const doneLinks = new Set(detailsAlreadyDone.map(item => item.lien))
DoneLinksOf(details) == {details[k].lien : k \in 1..Len(details)}

\* Variant: the merged record does not take the item's link.
CompleteDataNoLink(item, detailedData) ==
    Company(item.nom, 1, detailedData.codePostal, detailedData.website)

\* const completeData = { nom: item.nom, lien: item.lien, ...detailedData }
CompleteData(item, detailedData) ==
    Company(item.nom, item.lien, detailedData.codePostal, detailedData.website)

DetItem == det.urlsToScrape[det.i]

\* Variant: the catch block pushes the item, as the catch of the LinkedIn
\* stage does.
CaughtPushesItem(detailsAlreadyDone, item) ==
    Append(detailsAlreadyDone, Company(item.nom, item.lien, "", ""))

\* detailsAlreadyDone after the catch block: the block does not touch it.
Caught(detailsAlreadyDone, item) == detailsAlreadyDone

\* getStep("urls"), getStep("details"), doneLinks.
DetailsStart ==
    /\ det.pc \in {"off", "done"}
    /\ LET details == getStep(disk["details"])
       IN det' = [DetOff EXCEPT
                    !.pc = "loop", !.i = 1,
                    !.urlsToScrape = getStep(disk["urls"]),
                    !.detailsAlreadyDone = details,
                    !.doneLinks = DoneLinksOf(details),
                    !.read = details,
                    !.consec = (det.pc = "done"),
                    !.prevEnd = details,
                    !.prevFailed = det.failed,
                    !.written = det.written,
                    !.startSt = disk["details"].st,
                    !.prevWritten = det.written]
    /\ UNCHANGED <<disk, sir, lin, main, csv>>

\* if (doneLinks.has(item.lien)) continue;
DetailsSkip ==
    /\ det.pc = "loop" /\ det.i <= Len(det.urlsToScrape)
    /\ DetItem.lien \in det.doneLinks
    /\ det' = [det EXCEPT !.i = @ + 1]
    /\ UNCHANGED <<disk, sir, lin, main, csv>>

\* getDetails succeeds: push the merged record, setStep opens the file.
DetailsFetched(detailedData) ==
    /\ det.pc = "loop" /\ det.i <= Len(det.urlsToScrape)
    /\ DetItem.lien \notin det.doneLinks
    /\ det' = [det EXCEPT !.pc = "writing",
                          !.called = @ \cup {det.i},
                          !.detailsAlreadyDone =
                              Append(@, CompleteData(DetItem, detailedData))]
    /\ disk' = [disk EXCEPT !["details"] = setStepOpen(@)]
    /\ UNCHANGED <<sir, lin, main, csv>>

\* getDetails throws: the catch block calls logError with the item's name and
\* link; nothing is appended.
DetailsFailed ==
    /\ det.pc = "loop" /\ det.i <= Len(det.urlsToScrape)
    /\ DetItem.lien \notin det.doneLinks
    /\ det' = [det EXCEPT !.i = @ + 1, !.called = @ \cup {det.i},
                          !.detailsAlreadyDone = Caught(@, DetItem),
                          !.failed = @ \cup {DetItem.lien},
                          !.logged = @ \cup {DetItem.lien}]
    /\ UNCHANGED <<disk, sir, lin, main, csv>>

\* setStep completes; next item.
DetailsSaved ==
    /\ det.pc = "writing"
    /\ disk' = [disk EXCEPT !["details"] = setStepDone(@, det.detailsAlreadyDone)]
    /\ det' = [det EXCEPT !.pc = "loop", !.i = @ + 1,
                          !.written = det.detailsAlreadyDone]
    /\ UNCHANGED <<sir, lin, main, csv>>

\* The loop is over: the function returns.
DetailsFinish ==
    /\ det.pc = "loop" /\ det.i > Len(det.urlsToScrape)
    /\ det' = [det EXCEPT !.pc = "done"]
    /\ UNCHANGED <<disk, sir, lin, main, csv>>

\* The process is killed while the stage runs.
DetailsKill ==
    /\ det.pc \notin {"off", "done"}
    /\ det' = [DetOff EXCEPT !.failed = det.failed, !.written = det.written]
    /\ UNCHANGED <<disk, sir, lin, main, csv>>

\* ------------------------------------------- enrichWithLinkedIn (enrich.js)
\* The sentinel stored as profile URL after a hard failure.
Sentinel == "ERREUR"

\* Outcomes of one page.goto: loaded, TimeoutError, any other error.
NavOutcomes == {"ok", "timeout", "error"}

\* hrefs of a[href*="linkedin.com"] on a page, as returned by $$eval.
PageLinks ==
    {"li/company/acme", "li/company/acme-fr", "li/in/jdoe", "li/showcase/acme"}

\* hrefs of the search result links: redirect wrappers carrying the real URL
\* in the uddg parameter, and one without that parameter.
SearchLinks ==
    {"ddg?uddg=li/company/acme", "ddg?uddg=li/company/acme-fr",
     "ddg?uddg=li/in/jdoe", "ddg?uddg=li/showcase/acme", "ddg?q=linkedin.com"}

\* new URL(link, base).searchParams.get('uddg') || null
Uddg(link) ==
    CASE link = "ddg?uddg=li/company/acme" -> "li/company/acme"
      [] link = "ddg?uddg=li/company/acme-fr" -> "li/company/acme-fr"
      [] link = "ddg?uddg=li/in/jdoe" -> "li/in/jdoe"
      [] link = "ddg?uddg=li/showcase/acme" -> "li/showcase/acme"
      [] OTHER -> "null"

\* ddgLinks.map(...).filter(Boolean)
CleanedLinks(ddgLinks) ==
    SelectSeq([k \in 1..Len(ddgLinks) |-> Uddg(ddgLinks[k])], Truthy)

\* href.includes('/company/'), href.includes('/showcase/')
IsCompanyLink(href) == href \in {"li/company/acme", "li/company/acme-fr"}
IsShowcaseLink(href) == href = "li/showcase/acme"
IsOtherLink(href) == ~IsCompanyLink(href)

\* The locals of one run. read, appended, persisted, nav1 and nav2 are
\* bookkeeping for the properties: the final checkpoint as read at stage
\* start, the number of pushes made for each eligible record in this run, the
\* eligible records that were at some time in a completely written final
\* checkpoint (persisted outlives a kill), how the navigation made for each
\* eligible record in this run ended ("none": not attempted), what was
\* thrown outside the navigation attempts while each record was processed
\* ("none": nothing), and the records the outer catch has logged. scanned is
\* bookkeeping for the record being processed: whether page.$$eval has
\* returned, and the links it returned; searched likewise for the
\* page.evaluate of the fallback search; attempts is how each of the two
\* page.goto calls made for it ended (<<>>: no navigation). thrown is where
\* the exception that ended the run came from ("none": no such exception).
\* trace says whether scanned, searched and attempts are kept: they are in the
\* specification of a single lookup, not in that of the whole stage.
LinOff ==
    [pc |-> "off", i |-> 0,
     companiesToEnrich |-> <<>>, finalData |-> <<>>, doneNames |-> {},
     browser |-> "none",
     navigationSuccess |-> FALSE, selectedUrl |-> "", linkedinUrl |-> "",
     read |-> <<>>, appended |-> <<>>, persisted |-> {},
     nav |-> <<>>, exc |-> <<>>, caught |-> {},
     scanned |-> [done |-> FALSE, links |-> <<>>],
     searched |-> [done |-> FALSE, links |-> <<>>],
     attempts |-> <<>>, thrown |-> "none", trace |-> FALSE]

\* Variant: every record of the enriched checkpoint is taken.
EligibleCompaniesAll(enriched) == enriched

\* allProcessedCompanies.filter(c => c.sirene_siren)
EligibleCompanies(enriched) == SelectSeq(enriched, LAMBDA c : Truthy(c.sirene_siren))

\* Variant: the set is built from a field the records do not have.
LinDoneNamesOfNone(finalData) == {}

\* const doneNames = new Set(finalData.map(item => item.scrap_nom))
LinDoneNamesOf(finalData) == {finalData[k].scrap_nom : k \in 1..Len(finalData)}

\* { ...company, linkedinUrl }
FinalCompany(company, url) ==
    [id |-> company.id,
     scrap_nom |-> company.scrap_nom, scrap_lien |-> company.scrap_lien,
     scrap_codePostal |-> company.scrap_codePostal,
     scrap_website |-> company.scrap_website,
     sirene_siren |-> company.sirene_siren, dirigeants |-> company.dirigeants,
     linkedinUrl |-> url]

\* company.scrap_website && company.scrap_website.startsWith('http')
UsableWebsite(w) == Truthy(w) /\ w \in {"https://x.fr/", "https://x.fr/p"}

\* navigationSuccess after the two attempts (the second one is made only
\* when the first one failed).
NavigationSuccess(n1, n2) == n1 = "ok" \/ n2 = "ok"

\* How the two attempts ended: the page is loaded, both attempts timed out,
\* the final attempt failed with another error, or the first attempt failed
\* with another error and the final one timed out.
NavEnding(n1, n2) ==
    IF NavigationSuccess(n1, n2) THEN "loaded"
    ELSE IF n2 = "error" THEN "hard"
    ELSE IF n1 = "timeout" THEN "timeouts"
    ELSE "error-timeout"

\* Variant: a non-timeout error of either attempt marks the record.
UrlAfterNavigationAnyError(n1, n2) ==
    IF n1 = "error" \/ n2 = "error" THEN Sentinel ELSE ""

\* if (!(error2 instanceof TimeoutError)) finalCompany.linkedinUrl = 'ERREUR'
UrlAfterNavigation(n1, n2) ==
    IF n1 /= "ok" /\ n2 = "error" THEN Sentinel ELSE ""

\* Variant: the first link of the page, whatever its kind.
ScanSelectFirst(allLinkedinLinks) ==
    IF Len(allLinkedinLinks) > 0 THEN allLinkedinLinks[1] ELSE ""

\* companyMatches[0], else otherMatches[0], else ''
ScanSelect(allLinkedinLinks) ==
    LET companyMatches == SelectSeq(allLinkedinLinks, IsCompanyLink)
        otherMatches == SelectSeq(allLinkedinLinks, IsOtherLink)
    IN IF Len(companyMatches) > 0 THEN companyMatches[1]
       ELSE IF Len(otherMatches) > 0 THEN otherMatches[1]
       ELSE ""

\* Variant: any platform link is taken when no company or showcase page is
\* among the results.
SearchSelectAny(cleanedLinks) ==
    LET companyMatches == SelectSeq(cleanedLinks, IsCompanyLink)
        showcaseMatches == SelectSeq(cleanedLinks, IsShowcaseLink)
    IN IF Len(companyMatches) > 0 THEN companyMatches[1]
       ELSE IF Len(showcaseMatches) > 0 THEN showcaseMatches[1]
       ELSE IF Len(cleanedLinks) > 0 THEN cleanedLinks[1]
       ELSE ""

\* companyMatches[0], else showcaseMatches[0], else ''
SearchSelect(cleanedLinks) ==
    LET companyMatches == SelectSeq(cleanedLinks, IsCompanyLink)
        showcaseMatches == SelectSeq(cleanedLinks, IsShowcaseLink)
    IN IF Len(companyMatches) > 0 THEN companyMatches[1]
       ELSE IF Len(showcaseMatches) > 0 THEN showcaseMatches[1]
       ELSE ""

\* Variant: the selected URL is assigned unconditionally.
FinalUrlOverwrites(linkedinUrl, selectedUrl) == selectedUrl

\* if (finalCompany.linkedinUrl !== 'ERREUR') finalCompany.linkedinUrl = selectedUrl
FinalUrl(linkedinUrl, selectedUrl) ==
    IF linkedinUrl /= Sentinel THEN selectedUrl ELSE linkedinUrl

LinCompany == lin.companiesToEnrich[lin.i]

\* Variant: the finally block leaves the browser as it is.
FinallyLeavesOpen(browser) == browser

\* finally { if (browser) await browser.close(); }
Finally(browser) == IF browser /= "none" THEN "closed" ELSE browser

\* What can throw between the reads and the loop: puppeteer.launch (browser
\* is still undefined), or newPage / setViewport / setUserAgent.
SetupFailures == {"launch", "setup"}

\* The run ends with an exception before the loop: the finally block runs
\* and the exception leaves the function.
LinkedInSetupThrows(failure) ==
    /\ lin.pc \in {"off", "done", "threw"}
    /\ lin' = [LinOff EXCEPT
                 !.pc = "threw", !.thrown = failure,
                 !.finalData = getStep(disk["final"]),
                 !.read = getStep(disk["final"]),
                 !.browser = Finally(IF failure = "launch" THEN "none" ELSE "open"),
                 !.persisted = lin.persisted, !.trace = lin.trace]
    /\ UNCHANGED <<disk, det, sir, main, csv>>

\* getStep("enriched"), getStep("final"), doneNames, puppeteer.launch and the
\* page setup.
LinkedInStart ==
    /\ lin.pc \in {"off", "done", "threw"}
    /\ LET companies == EligibleCompanies(getStep(disk["enriched"]))
           finalData == getStep(disk["final"])
       IN lin' = [LinOff EXCEPT
                    !.pc = "loop", !.i = 1,
                    !.companiesToEnrich = companies,
                    !.finalData = finalData,
                    !.doneNames = LinDoneNamesOf(finalData),
                    !.browser = "open",
                    !.read = finalData,
                    !.appended = [k \in 1..Len(companies) |-> 0],
                    !.nav = [k \in 1..Len(companies) |-> "none"],
                    !.exc = [k \in 1..Len(companies) |-> "none"],
                    !.persisted = lin.persisted, !.trace = lin.trace]
    /\ UNCHANGED <<disk, det, sir, main, csv>>

\* if (doneNames.has(company.scrap_nom)) continue;
LinkedInSkip ==
    /\ lin.pc = "loop" /\ lin.i <= Len(lin.companiesToEnrich)
    /\ LinCompany.scrap_nom \in lin.doneNames
    /\ lin' = [lin EXCEPT !.i = @ + 1]
    /\ UNCHANGED <<disk, det, sir, main, csv>>

\* The record has no usable website: no navigation, no scan, no search.
LinkedInNoWebsite ==
    /\ lin.pc = "loop" /\ lin.i <= Len(lin.companiesToEnrich)
    /\ LinCompany.scrap_nom \notin lin.doneNames
    /\ ~UsableWebsite(LinCompany.scrap_website)
    /\ lin' = [lin EXCEPT !.pc = "push", !.navigationSuccess = FALSE,
                          !.selectedUrl = "", !.linkedinUrl = ""]
    /\ UNCHANGED <<disk, det, sir, main, csv>>

\* The two navigation attempts (n2 is "none" when the first one succeeded).
LinkedInNavigate(n1, n2) ==
    /\ lin.pc = "loop" /\ lin.i <= Len(lin.companiesToEnrich)
    /\ LinCompany.scrap_nom \notin lin.doneNames
    /\ UsableWebsite(LinCompany.scrap_website)
    /\ (n1 = "ok") <=> (n2 = "none")
    /\ lin' = [lin EXCEPT
                 !.pc = IF NavigationSuccess(n1, n2) THEN "scan" ELSE "push",
                 !.navigationSuccess = NavigationSuccess(n1, n2),
                 !.selectedUrl = "",
                 !.linkedinUrl = UrlAfterNavigation(n1, n2),
                 !.nav[lin.i] = NavEnding(n1, n2),
                 !.attempts = IF lin.trace THEN <<n1, n2>> ELSE @]
    /\ UNCHANGED <<disk, det, sir, main, csv>>

\* page.$$eval returns the platform links of the page.
LinkedInScan(allLinkedinLinks) ==
    /\ lin.pc = "scan"
    /\ lin' = [lin EXCEPT
                 !.selectedUrl = ScanSelect(allLinkedinLinks),
                 !.scanned = IF lin.trace
                             THEN [done |-> TRUE, links |-> allLinkedinLinks] ELSE @,
                 !.pc = IF Truthy(ScanSelect(allLinkedinLinks)) THEN "push" ELSE "search"]
    /\ UNCHANGED <<disk, det, sir, main, csv>>

\* page.$$eval throws: the outer catch takes over.
LinkedInScanThrows ==
    /\ lin.pc = "scan"
    /\ lin' = [lin EXCEPT !.pc = "catch", !.exc[lin.i] = "scan"]
    /\ UNCHANGED <<disk, det, sir, main, csv>>

\* The fallback search: page.goto and page.evaluate succeed.
LinkedInSearch(ddgLinks) ==
    /\ lin.pc = "search"
    /\ lin' = [lin EXCEPT !.selectedUrl = SearchSelect(CleanedLinks(ddgLinks)),
                          !.searched = IF lin.trace
                                       THEN [done |-> TRUE, links |-> ddgLinks] ELSE @,
                          !.pc = "push"]
    /\ UNCHANGED <<disk, det, sir, main, csv>>

\* What the fallback search can throw: page.goto of the search page times
\* out; page.goto fails otherwise or page.evaluate throws.
SearchFailures == {"search-timeout", "search-error"}

\* The fallback search throws: the outer catch takes over.
LinkedInSearchThrows(failure) ==
    /\ lin.pc = "search"
    /\ lin' = [lin EXCEPT !.pc = "catch", !.exc[lin.i] = failure]
    /\ UNCHANGED <<disk, det, sir, main, csv>>

\* Lines 265-269: assign the URL, push, setStep opens the file.
LinkedInPush ==
    /\ lin.pc = "push"
    /\ LET url == FinalUrl(lin.linkedinUrl, lin.selectedUrl)
       IN lin' = [lin EXCEPT !.pc = "writing", !.linkedinUrl = url,
                             !.finalData = Append(@, FinalCompany(LinCompany, url)),
                             !.appended[lin.i] = @ + 1]
    /\ disk' = [disk EXCEPT !["final"] = setStepOpen(@)]
    /\ UNCHANGED <<det, sir, main, csv>>

\* Variant: the outer catch keeps the URL the record has.
CatchUrlKeeps(linkedinUrl) == linkedinUrl

\* finalCompany.linkedinUrl = 'ERREUR' (outer catch)
CatchUrl(linkedinUrl) == Sentinel

\* Lines 281-287: log, push with the sentinel, setStep opens the file.
LinkedInCatch ==
    /\ lin.pc = "catch"
    /\ LET url == CatchUrl(lin.linkedinUrl)
       IN lin' = [lin EXCEPT !.pc = "writing", !.linkedinUrl = url,
                             !.finalData = Append(@, FinalCompany(LinCompany, url)),
                             !.appended[lin.i] = @ + 1,
                             !.caught = @ \cup {lin.i}]
    /\ disk' = [disk EXCEPT !["final"] = setStepOpen(@)]
    /\ UNCHANGED <<det, sir, main, csv>>

\* The outer catch block itself throws (logError reads error.message before
\* its own try block and rejects when the thrown value is null or
\* undefined): the exception leaves the loop, the finally block runs, nothing
\* is pushed for the record.
LinkedInCatchThrows ==
    /\ lin.pc = "catch"
    /\ lin' = [lin EXCEPT !.pc = "threw", !.thrown = "catch",
                          !.browser = Finally(lin.browser)]
    /\ UNCHANGED <<disk, det, sir, main, csv>>

\* setStep completes; next record.
LinkedInSaved ==
    /\ lin.pc = "writing"
    /\ disk' = [disk EXCEPT !["final"] = setStepDone(@, lin.finalData)]
    /\ lin' = [lin EXCEPT !.pc = "loop", !.i = @ + 1,
                          !.scanned = LinOff.scanned,
                          !.searched = LinOff.searched,
                          !.attempts = <<>>,
                          !.persisted = @ \cup {lin.companiesToEnrich[k] :
                                                  k \in {n \in 1..Len(lin.companiesToEnrich) :
                                                           lin.appended[n] > 0}}]
    /\ UNCHANGED <<det, sir, main, csv>>

\* The loop is over: finally closes the browser and the function returns.
LinkedInFinish ==
    /\ lin.pc = "loop" /\ lin.i > Len(lin.companiesToEnrich)
    /\ lin' = [lin EXCEPT !.pc = "done", !.browser = Finally(lin.browser)]
    /\ UNCHANGED <<disk, det, sir, main, csv>>

\* The process is killed while the stage runs.
LinkedInKill ==
    /\ lin.pc \notin {"off", "done", "threw"}
    /\ lin' = [LinOff EXCEPT !.persisted = lin.persisted, !.trace = lin.trace]
    /\ UNCHANGED <<disk, det, sir, main, csv>>

\* Enriched checkpoints the Sirene stage leaves: match records of company a
\* (one company can fan out into several) and of company b (whose website has
\* no web scheme), and placeholders, with the ids of an ascending counter.
EnrichedKinds == {"a", "b", "placeholder"}

EnrichedOfKinds(ks) ==
    [k \in 1..Len(ks) |->
        CASE ks[k] = "a" ->
               MatchRecord(Company("a", 1, "75001", "https://x.fr/p"), k, <<>>)
          [] ks[k] = "b" ->
               MatchRecord(Company("b", 2, "75001", "ftp://x.fr/f"), k, <<>>)
          [] OTHER -> Placeholder(Company("a", 3, "", "https://x.fr/"))]

EnrichedLists == {EnrichedOfKinds(ks) : ks \in SeqsUpTo(EnrichedKinds, MaxEnriched)}

\* ------------------------------------------------------------ main (main.js)
\* One process runs main at a time. The stages other than runGetListStep are
\* taken here at the grain main sees them: the checkpoint reads at the start
\* of the call, setStep and logError calls with some content, the return or
\* the throw. Their item loops are the three stage machines above.
MaxList == 1
MaxFinal == 2

\* Sources with an adapter module under scrapers/.
Sources == {"frenchFab", "other"}

\* process.argv: the source name ("undefined": none given, "nope": a name
\* without adapter module).
SourceArgs == {"frenchFab", "nope", "undefined"}

StageOrder == <<"list", "details", "sirene", "linkedin", "export">>

\* A file under data/: in data/test (trial) or in data/<source>.
Path(trial, source, name) == [trial |-> trial, source |-> source, name |-> name]

\* The entities output of convertToCsv: data/test/entreprises.test.csv or
\* data/<source>/entreprises.csv.
CsvPath(sourceName, isTestMode) ==
    IF isTestMode THEN Path(TRUE, "", "entreprises")
    ELSE Path(FALSE, sourceName, "entreprises")

\* Variant: the file of the production namespace whatever the mode.
FilePathProduction(sourceName, stepName, test) == Path(FALSE, sourceName, stepName)

\* getStep / setStep: data/test/<source>-<step>.test.json or
\* data/<source>/<step>.json.
FilePath(sourceName, stepName, test) == Path(test, sourceName, stepName)

\* logError: data/test/errors-<source>.log or data/<source>/errors.log.
LogFilePath(sourceName, isTestMode) == Path(isTestMode, sourceName, "errors")

Paths ==
    {Path(t, src, n) : t \in BOOLEAN, src \in Sources,
                       n \in Stages \cup {"errors", "entreprises"}}
      \cup {Path(TRUE, "", "entreprises")}

\* The files the test-mode cleanup of main removes for a source.
TrialFilesOf(sourceName) ==
    {p \in Paths : p.trial /\ p.source = sourceName /\ p.name \in Stages \cup {"errors"}}

\* The content a stage call, logError or convertToCsv leaves in a file.
Content(by) == OkFile(<<[by |-> by]>>)

\* The checkpoint a stage writes, and the checkpoints it reads when called.
CheckpointOf(stage) ==
    CASE stage = "list" -> "urls"
      [] stage = "details" -> "details"
      [] stage = "sirene" -> "enriched"
      [] OTHER -> "final"

ReadsOf(stage) ==
    CASE stage = "list" -> {"urls"}
      [] stage = "details" -> {"urls", "details"}
      [] stage = "sirene" -> {"details", "enriched"}
      [] stage = "linkedin" -> {"enriched", "final"}
      [] OTHER -> {"final"}

\* Variant: the two enrichment calls in the other order.
NextStageSwapped(stage) ==
    CASE stage = "list" -> "details"
      [] stage = "details" -> "linkedin"
      [] stage = "linkedin" -> "sirene"
      [] stage = "sirene" -> "export"
      [] OTHER -> "ended"

\* The awaited calls of main, in order.
NextStage(stage) ==
    CASE stage = "list" -> "details"
      [] stage = "details" -> "sirene"
      [] stage = "sirene" -> "linkedin"
      [] stage = "linkedin" -> "export"
      [] OTHER -> "ended"

\* The process state. fs is the content of data/. snap, atTry, io, started,
\* returned, failedIn, cleanFailed and getListCalled are bookkeeping for the
\* properties: data/ at process start and at the start of the try block, the
\* files read, written or deleted by this process, the stages called (in
\* call order) and returned, the stage in which a setStep write failed
\* ("none": no failure), whether the cleanup left a file, and whether
\* getList was called.

\* What earlier runs left of a namespace of source frenchFab: nothing, the
\* urls checkpoint only, or every file of a complete run.
Leftovers == {"none", "urls", "all"}

\* The lists getList can return.
ListResults == SeqsUpTo(SourceRecords, MaxList)

\* data/ before the process starts; the files of the other source are those
\* of a complete run in both namespaces.
MainFs(production, trial) ==
    [p \in Paths |->
        LET left == IF p.source = "other" THEN "all"
                    ELSE IF p.trial THEN trial ELSE production
        IN CASE left = "none" -> Absent
             [] p.name = "urls" -> OkFile(<<[nom |-> "a", lien |-> 1]>>)
             [] left = "urls" -> Absent
             [] p.name \in Stages -> Content(p.name)
             [] p.name = "errors" -> Content("log")
             [] OTHER -> Content("export")]

\* Where main is not part of the run no data directory is in view.
MainInitFs == <<>>

MainOff ==
    [pc |-> "idle", exit |-> "none", sourceName |-> "undefined", isTestMode |-> FALSE,
     fs |-> MainInitFs, existingUrls |-> <<>>, newList |-> <<>>,
     snap |-> MainInitFs, atTry |-> MainInitFs, io |-> {},
     started |-> <<>>, returned |-> {}, failedIn |-> "none",
     cleanFailed |-> FALSE, getListCalled |-> FALSE]

\* Variant: the list step never counts as done.
ListDoneNever(existingUrls) == FALSE

\* if (existingUrls.length > 0) return;
ListDone(existingUrls) == Len(existingUrls) > 0

\* The call of a stage up to its first await that can fail: the getStep
\* reads at its start. "ended" is the normal end of main (exit code 0).
Called(m, stage) ==
    IF stage = "ended"
    THEN [m EXCEPT !.pc = "ended", !.exit = "0"]
    ELSE [m EXCEPT
            !.pc = IF stage = "linkedin" THEN "launch" ELSE stage,
            !.started = Append(@, stage),
            !.io = @ \cup {FilePath(m.sourceName, n, m.isTestMode) : n \in ReadsOf(stage)},
            !.existingUrls =
                IF stage = "list"
                THEN getStep(m.fs[FilePath(m.sourceName, "urls", m.isTestMode)])
                ELSE @]

\* The stage returns and main calls the next one.
Returned(m, stage) ==
    Called([m EXCEPT !.returned = @ \cup {stage}], NextStage(stage))

\* Variant: the process ends with exit code 0.
ExitedWithZero(m) == [m EXCEPT !.pc = "exit1", !.exit = "0"]

\* catch (error) { ...; process.exit(1) } and the exit for a missing name.
Exited(m) == [m EXCEPT !.pc = "exit1", !.exit = "1"]

\* setStep / logError / fs.writeFile of a file: a failed write is caught
\* and printed by the callee and leaves the file as it was.
Written(m, path, content, ok) ==
    [m EXCEPT !.fs[path] = IF ok THEN content ELSE @,
              !.io = @ \cup {path}]

\* node main.js <source> [test]
MainStart(sourceName, isTestMode) ==
    /\ main.pc = "idle"
    /\ main' = [main EXCEPT
                  !.pc = IF isTestMode THEN "clean" ELSE "check",
                  !.sourceName = sourceName, !.isTestMode = isTestMode]
    /\ UNCHANGED <<disk, det, sir, lin, csv>>

\* Lines 22-46: the cleanup removes the trial files of the source; when
\* readdir or an unlink fails the error is printed and some files are left.
MainClean(deleted) ==
    /\ main.pc = "clean"
    /\ LET present == {p \in TrialFilesOf(main.sourceName) : main.fs[p] /= Absent}
       IN /\ deleted \subseteq present
          /\ main' = [main EXCEPT
                        !.pc = "check",
                        !.fs = [p \in Paths |-> IF p \in deleted THEN Absent ELSE @[p]],
                        !.io = @ \cup deleted,
                        !.cleanFailed = (deleted /= present)]
    /\ UNCHANGED <<disk, det, sir, lin, csv>>

\* if (!sourceName) process.exit(1)
MainNoSource ==
    /\ main.pc = "check" /\ main.sourceName = "undefined"
    /\ main' = Exited(main)
    /\ UNCHANGED <<disk, det, sir, lin, csv>>

\* The dynamic import resolves; runGetListStep is called.
MainImport ==
    /\ main.pc = "check" /\ main.sourceName \in Sources
    /\ main' = Called([main EXCEPT !.atTry = main.fs], "list")
    /\ UNCHANGED <<disk, det, sir, lin, csv>>

\* The dynamic import throws ERR_MODULE_NOT_FOUND.
MainImportFails ==
    /\ main.pc = "check" /\ main.sourceName \notin Sources \cup {"undefined"}
    /\ main' = Exited([main EXCEPT !.atTry = main.fs])
    /\ UNCHANGED <<disk, det, sir, lin, csv>>

\* runGetListStep: the checkpoint holds entries, return.
ListSkip ==
    /\ main.pc = "list" /\ ListDone(main.existingUrls)
    /\ main' = Returned(main, "list")
    /\ UNCHANGED <<disk, det, sir, lin, csv>>

\* runGetListStep: scraper.getList returns newList.
ListGetList(newList) ==
    /\ main.pc = "list" /\ ~ListDone(main.existingUrls)
    /\ main' = [main EXCEPT !.pc = "save", !.newList = newList, !.getListCalled = TRUE]
    /\ UNCHANGED <<disk, det, sir, lin, csv>>

\* runGetListStep: scraper.getList throws; main catches and exits.
ListGetListThrows ==
    /\ main.pc = "list" /\ ~ListDone(main.existingUrls)
    /\ main' = Exited([main EXCEPT !.getListCalled = TRUE])
    /\ UNCHANGED <<disk, det, sir, lin, csv>>

\* runGetListStep: setStep("urls", newList), return.
ListSave(ok) ==
    /\ main.pc = "save"
    /\ main' = Returned(
                 [Written(main, FilePath(main.sourceName, "urls", main.isTestMode),
                          setStepDone(main.fs[FilePath(main.sourceName, "urls", main.isTestMode)],
                                      main.newList), ok)
                    EXCEPT !.failedIn = IF ok THEN @ ELSE "list"],
                 "list")
    /\ UNCHANGED <<disk, det, sir, lin, csv>>

ItemStages == {"details", "sirene", "linkedin"}

\* A setStep of the stage that runs.
StageSave(ok) ==
    /\ main.pc \in ItemStages
    /\ main' = [Written(main, FilePath(main.sourceName, CheckpointOf(main.pc), main.isTestMode),
                        Content(main.pc), ok)
                  EXCEPT !.failedIn = IF ok \/ @ /= "none" THEN @ ELSE main.pc]
    /\ UNCHANGED <<disk, det, sir, lin, csv>>

\* A logError of the stage that runs.
StageLog ==
    /\ main.pc \in ItemStages
    /\ main' = Written(main, LogFilePath(main.sourceName, main.isTestMode), Content("log"), TRUE)
    /\ UNCHANGED <<disk, det, sir, lin, csv>>

\* enrichWithLinkedIn: puppeteer.launch and the page setup succeed.
MainLaunch ==
    /\ main.pc = "launch"
    /\ main' = [main EXCEPT !.pc = "linkedin"]
    /\ UNCHANGED <<disk, det, sir, lin, csv>>

\* enrichWithLinkedIn: puppeteer.launch or the page setup throws; the
\* function has no catch, main catches and exits.
MainLaunchThrows ==
    /\ main.pc = "launch"
    /\ main' = Exited(main)
    /\ UNCHANGED <<disk, det, sir, lin, csv>>

\* The stage that runs returns; main calls the next one.
StageReturn ==
    /\ main.pc \in ItemStages
    /\ main' = Returned(main, main.pc)
    /\ UNCHANGED <<disk, det, sir, lin, csv>>

\* convertToCsv: nothing to convert, or the entities file is written (a
\* failed write is caught and printed); main ends.
MainExport(ok) ==
    /\ main.pc = "export"
    /\ LET finalData == getStep(main.fs[FilePath(main.sourceName, "final", main.isTestMode)])
       IN main' = Returned(
                    IF Len(finalData) = 0 THEN main
                    ELSE Written(main, CsvPath(main.sourceName, main.isTestMode),
                                 Content("export"), ok),
                    "export")
    /\ UNCHANGED <<disk, det, sir, lin, csv>>

\* ---------------------------------------------------- convertToCsv (utils.js)
\* The export: no call yet ("off") or the call has returned ("done"), the
\* rows handed to stringify for the two outputs, and the outputs written.
CsvOff == [pc |-> "off", entreprises |-> <<>>, dirigeants |-> <<>>, files |-> {}]

\* linkedin: company.linkedinUrl !== 'ERREUR' ? company.linkedinUrl : ''
CsvLinkedin(linkedinUrl) == IF linkedinUrl /= Sentinel THEN linkedinUrl ELSE ""

\* One row of companiesData (the columns the model's records carry).
CompanyRow(company) ==
    [recordId |-> company.id, nom |-> company.scrap_nom,
     website |-> company.scrap_website,
     linkedin |-> CsvLinkedin(company.linkedinUrl),
     siren |-> company.sirene_siren]

\* The rows of dirigeantsData for one company (every principal of the model
\* has an id, so the fallback id of line 157 is not used).
DirigeantRows(company) ==
    [k \in 1..Len(company.dirigeants) |->
        [id |-> company.dirigeants[k].id,
         entreprise |-> company.dirigeants[k].entreprise,
         idEntreprise |-> company.dirigeants[k].idEntreprise]]

\* Final checkpoints the discovery stage leaves: match records with or
\* without a principal, with a found URL, the empty URL or the sentinel.
ExportUrls == {"", Sentinel, "li/company/acme"}

FinalKinds == {"a", "b"} \X {0, 1} \X ExportUrls

FinalOfKinds(ks) ==
    [k \in 1..Len(ks) |->
        LET company == IF ks[k][1] = "a" THEN Company("a", 1, "75001", "https://x.fr/p")
                       ELSE Company("b", 2, "75001", "ftp://x.fr/f")
            ds == IF ks[k][2] = 1 THEN <<"pp">> ELSE <<>>
        IN FinalCompany(MatchRecord(company, k, Principals(ds, company, k, k - 1)), ks[k][3])]

FinalLists == {FinalOfKinds(ks) : ks \in SeqsUpTo(FinalKinds, MaxFinal)}

\* if (!finalData || finalData.length === 0) return;
ConvertNothing ==
    /\ csv.pc = "off"
    /\ Len(getStep(disk["final"])) = 0
    /\ csv' = [csv EXCEPT !.pc = "done"]
    /\ UNCHANGED <<disk, det, sir, lin, main>>

\* The two outputs are built and written; a failed write is caught and
\* printed; the principals output is written only when there is a row.
ConvertToCsv(okEntreprises, okDirigeants) ==
    /\ csv.pc = "off"
    /\ LET finalData == getStep(disk["final"])
           companiesData == [k \in 1..Len(finalData) |-> CompanyRow(finalData[k])]
           dirigeantsData == Flatten([k \in 1..Len(finalData) |-> DirigeantRows(finalData[k])])
       IN /\ Len(finalData) > 0
          /\ csv' = [pc |-> "done",
                     entreprises |-> companiesData,
                     dirigeants |-> dirigeantsData,
                     files |-> (IF okEntreprises THEN {"entreprises"} ELSE {})
                                 \cup (IF okDirigeants /\ Len(dirigeantsData) > 0
                                       THEN {"dirigeants"} ELSE {})]
    /\ UNCHANGED <<disk, det, sir, lin, main>>

\* ------------------- main: the two enrichment stages of one process (main.js)
\* await enrich.enrichWithSirene(...); await enrich.enrichWithLinkedIn(...):
\* the second stage starts when the first has returned, in the same process.
\* sir.pc = "off": no process runs; "returned": enrichWithSirene has returned
\* and its locals are gone.
PipelineOff(s) ==
    [SirOff EXCEPT !.saved = s.saved, !.registry = s.registry,
                   !.failedDone = s.failedDone]

\* A process is started: enrichWithSirene is called.
PipelineSireneStart ==
    /\ sir.pc = "off" /\ lin.pc = "off"
    /\ SireneStart

\* enrichWithSirene returns to main.
SireneReturned ==
    /\ sir.pc = "done" /\ lin.pc = "off"
    /\ sir' = [PipelineOff(sir) EXCEPT !.pc = "returned"]
    /\ UNCHANGED <<disk, det, lin, main, csv>>

\* main calls enrichWithLinkedIn.
PipelineLinkedInStart ==
    /\ sir.pc = "returned" /\ lin.pc = "off"
    /\ LinkedInStart

\* enrichWithLinkedIn throws before its loop.
PipelineSetupThrows(failure) ==
    /\ sir.pc = "returned" /\ lin.pc = "off"
    /\ LinkedInSetupThrows(failure)

\* main returns, or its catch block calls process.exit(1): the process ends.
PipelineExit ==
    /\ sir.pc = "returned" /\ lin.pc \in {"done", "threw"}
    /\ sir' = PipelineOff(sir)
    /\ lin' = [LinOff EXCEPT !.persisted = lin.persisted, !.trace = lin.trace]
    /\ UNCHANGED <<disk, det, main, csv>>

\* The process is killed, in either stage or between them, before it has
\* come to its end: its memory is lost, the files stay.
PipelineKill ==
    /\ sir.pc /= "off"
    /\ ~(sir.pc = "returned" /\ lin.pc \in {"done", "threw"})
    /\ sir' = PipelineOff(sir)
    /\ lin' = [LinOff EXCEPT !.persisted = lin.persisted, !.trace = lin.trace]
    /\ UNCHANGED <<disk, det, main, csv>>

InitSirene ==
    /\ \E ds \in DetailLists :
          disk = [s \in Stages |-> IF s = "details" THEN OkFile(ds) ELSE Absent]
    /\ det = DetOff /\ sir = SirOff /\ lin = LinOff /\ main = MainOff /\ csv = CsvOff

NextSirene ==
    \/ SireneStart
    \/ SireneSkip
    \/ SireneNoPostal
    \/ \E ok \in BOOLEAN : SireneFetch(ok)
    \/ \E d \in Candidates : SireneCandidate(d)
    \/ SireneCandidatesEnd
    \/ SireneFinally
    \/ SireneSaved
    \/ SireneFinish
    \/ SireneKill

SpecSirene == InitSirene /\ [][NextSirene]_vars

InitFinances ==
    /\ disk = [s \in Stages |-> Absent]
    /\ det = DetOff /\ lin = LinOff /\ main = MainOff /\ csv = CsvOff
    /\ \E d \in FinCandidates :
          sir = [SirOff EXCEPT !.fin.pc = "cand", !.fin.d = d]

NextFinances ==
    \/ FinancesDerived
    \/ FinancesSaved

SpecFinances == InitFinances /\ [][NextFinances]_vars

\* Details lists with pairwise distinct names.
DistinctNames(ds) == \A m, n \in 1..Len(ds) : m /= n => ds[m].nom /= ds[n].nom

InitResume ==
    /\ \E ds \in {l \in DetailLists : DistinctNames(l)} :
          disk = [s \in Stages |-> IF s = "details" THEN OkFile(ds) ELSE Absent]
    /\ det = DetOff /\ lin = LinOff /\ main = MainOff /\ csv = CsvOff
    /\ \E registry \in Registries : sir = [SirOff EXCEPT !.registry = registry]

NextResume ==
    \/ SireneStart
    \/ SireneSkip
    \/ SireneNoPostal
    \/ ResumeFetch
    \/ ResumeCandidate
    \/ ResumeCandidatesEnd
    \/ SireneFinally
    \/ SireneSaved
    \/ SireneFinish
    \/ SireneKill

SpecResume == InitResume /\ [][NextResume]_vars

\* The details lists the two stages are run over in one process.
PipelineLists == {ds \in DetailLists : Len(ds) <= MaxPipeline}

\* The registry's candidates, with or without a siege object; their
\* dirigeants play no part in which names are written.
PipelineCandidates == {d \in Candidates : d.dirigeants = <<>>}

InitPipeline ==
    /\ \E ds \in PipelineLists :
          disk = [s \in Stages |-> IF s = "details" THEN OkFile(ds) ELSE Absent]
    /\ det = DetOff /\ sir = SirOff /\ lin = LinOff /\ main = MainOff /\ csv = CsvOff

\* The steps of a process that is neither killed nor ended by an exception,
\* and the start of the next process.
PipelineProgress ==
    \/ PipelineSireneStart
    \/ SireneSkip
    \/ SireneNoPostal
    \/ \E ok \in BOOLEAN : SireneFetch(ok)
    \/ \E d \in PipelineCandidates : SireneCandidate(d)
    \/ SireneCandidatesEnd
    \/ SireneFinally
    \/ SireneSaved
    \/ SireneFinish
    \/ SireneReturned
    \/ PipelineLinkedInStart
    \/ LinkedInSkip
    \/ LinkedInNoWebsite
    \/ \E n1 \in NavOutcomes, n2 \in NavOutcomes \cup {"none"} : LinkedInNavigate(n1, n2)
    \/ \E ls \in SeqsUpTo(PageLinks, MaxLinks) : LinkedInScan(ls)
    \/ LinkedInScanThrows
    \/ \E ls \in SeqsUpTo(SearchLinks, MaxLinks) : LinkedInSearch(ls)
    \/ \E failure \in SearchFailures : LinkedInSearchThrows(failure)
    \/ LinkedInPush
    \/ LinkedInCatch
    \/ LinkedInSaved
    \/ LinkedInFinish
    \/ PipelineExit

\* A process ends before its work is done: killed, or by an exception that
\* leaves enrichWithLinkedIn.
PipelineInterrupted ==
    \/ PipelineKill
    \/ \E failure \in SetupFailures : PipelineSetupThrows(failure)
    \/ LinkedInCatchThrows

NextPipeline ==
    \/ PipelineProgress
    \/ PipelineInterrupted

\* One process at a time executes its next statement whenever it has one, and
\* a new process is started when none runs; nothing is assumed about kills.
SpecPipeline == InitPipeline /\ [][NextPipeline]_vars /\ WF_vars(PipelineProgress)

InitGeo ==
    /\ disk = [s \in Stages |-> Absent]
    /\ det = DetOff /\ lin = LinOff /\ main = MainOff /\ csv = CsvOff
    /\ \E siege \in Sieges :
          sir = [SirOff EXCEPT !.geo.pc = "cand", !.geo.siege = siege]

NextGeo ==
    \/ GeoStart
    \/ \E l \in Lookups, body \in Bodies : GeoResponds(l, body)
    \/ \E l \in Lookups : GeoFetchRejects(l)
    \/ \E l \in Lookups : GeoJson(l)
    \/ \E l \in Lookups : GeoCatch(l)
    \/ GeoAll
    \/ GeoAssign

SpecGeo == InitGeo /\ [][NextGeo]_vars

InitDetails ==
    /\ \E us \in UrlLists :
          disk = [s \in Stages |-> IF s = "urls" THEN OkFile(us) ELSE Absent]
    /\ det = DetOff /\ sir = SirOff /\ lin = LinOff /\ main = MainOff /\ csv = CsvOff

NextDetails ==
    \/ DetailsStart
    \/ DetailsSkip
    \/ \E f \in DetailFields : DetailsFetched(f)
    \/ DetailsFailed
    \/ DetailsSaved
    \/ DetailsFinish
    \/ DetailsKill

SpecDetails == InitDetails /\ [][NextDetails]_vars

InitLinkedIn ==
    /\ \E es \in EnrichedLists :
          disk = [s \in Stages |-> IF s = "enriched" THEN OkFile(es) ELSE Absent]
    /\ det = DetOff /\ sir = SirOff /\ lin = LinOff /\ main = MainOff /\ csv = CsvOff

NextLinkedIn ==
    \/ LinkedInStart
    \/ \E failure \in SetupFailures : LinkedInSetupThrows(failure)
    \/ LinkedInSkip
    \/ LinkedInNoWebsite
    \/ \E n1 \in NavOutcomes, n2 \in NavOutcomes \cup {"none"} : LinkedInNavigate(n1, n2)
    \/ \E ls \in SeqsUpTo(PageLinks, MaxLinks) : LinkedInScan(ls)
    \/ LinkedInScanThrows
    \/ \E ls \in SeqsUpTo(SearchLinks, MaxLinks) : LinkedInSearch(ls)
    \/ \E failure \in SearchFailures : LinkedInSearchThrows(failure)
    \/ LinkedInPush
    \/ LinkedInCatch
    \/ LinkedInCatchThrows
    \/ LinkedInSaved
    \/ LinkedInFinish
    \/ LinkedInKill

SpecLinkedIn == InitLinkedIn /\ [][NextLinkedIn]_vars

\* The stage over an enriched checkpoint of at most one record, with the
\* bookkeeping of the lookup kept.
LookupLists == {es \in EnrichedLists : Len(es) <= 1}

InitLookup ==
    /\ \E es \in LookupLists :
          disk = [s \in Stages |-> IF s = "enriched" THEN OkFile(es) ELSE Absent]
    /\ det = DetOff /\ sir = SirOff /\ main = MainOff /\ csv = CsvOff
    /\ lin = [LinOff EXCEPT !.trace = TRUE]

SpecLookup == InitLookup /\ [][NextLinkedIn]_vars

InitMain ==
    /\ disk = [s \in Stages |-> Absent]
    /\ det = DetOff /\ sir = SirOff /\ lin = LinOff /\ csv = CsvOff
    /\ \E production \in Leftovers, trial \in Leftovers :
          main = [MainOff EXCEPT !.fs = MainFs(production, trial),
                                 !.snap = MainFs(production, trial),
                                 !.atTry = MainFs(production, trial)]

NextMain ==
    \/ \E sourceName \in SourceArgs, isTestMode \in BOOLEAN : MainStart(sourceName, isTestMode)
    \/ \E deleted \in SUBSET TrialFilesOf(main.sourceName) : MainClean(deleted)
    \/ MainNoSource
    \/ MainImport
    \/ MainImportFails
    \/ ListSkip
    \/ \E newList \in ListResults : ListGetList(newList)
    \/ ListGetListThrows
    \/ \E ok \in BOOLEAN : ListSave(ok)
    \/ \E ok \in BOOLEAN : StageSave(ok)
    \/ StageLog
    \/ MainLaunch
    \/ MainLaunchThrows
    \/ StageReturn
    \/ \E ok \in BOOLEAN : MainExport(ok)

SpecMain == InitMain /\ [][NextMain]_vars

InitExport ==
    /\ \E fs \in FinalLists :
          disk = [s \in Stages |-> IF s = "final" THEN OkFile(fs) ELSE Absent]
    /\ det = DetOff /\ sir = SirOff /\ lin = LinOff /\ main = MainOff /\ csv = CsvOff

NextExport ==
    \/ ConvertNothing
    \/ \E okEntreprises \in BOOLEAN, okDirigeants \in BOOLEAN :
          ConvertToCsv(okEntreprises, okDirigeants)

SpecExport == InitExport /\ [][NextExport]_vars

\* ------------------------------------------------- properties, Sirene stage
EnrichedCheckpoint == getStep(disk["enriched"])

ScrapNoms(recs) == {recs[k].scrap_nom : k \in 1..Len(recs)}

AllPrincipals(recs) == Flatten([k \in 1..Len(recs) |-> recs[k].dirigeants])

SirProcessing == sir.pc \in {"cand", "finally"}

\* C1: all entity ids stored in the enriched checkpoint are pairwise distinct,
\* after any sequence of runs, kills and resumes.
C1_EntityIdsDistinct ==
    \A m, n \in 1..Len(EnrichedCheckpoint) :
        (m /= n /\ EnrichedCheckpoint[m].id /= 0 /\ EnrichedCheckpoint[n].id /= 0)
            => EnrichedCheckpoint[m].id /= EnrichedCheckpoint[n].id

\* C2: the principal ids of the enriched checkpoint, read in checkpoint order,
\* are strictly increasing (hence pairwise distinct).
C2_PrincipalIdsIncreasing ==
    LET p == AllPrincipals(EnrichedCheckpoint)
    IN \A m, n \in 1..Len(p) : m < n => p[m].id < p[n].id

\* A resumed run has appended a principal after those of the checkpoint it read.
C2_Witness ==
    /\ sir.pc = "loop"
    /\ SumLen(sir.read) >= 1
    /\ SumLen(EnrichedCheckpoint) > SumLen(sir.read)

\* C3: when a run has finished, every DetailRecord has a record of its name in
\* the enriched checkpoint.
C3_EveryDetailCovered ==
    sir.pc = "done" =>
        \A k \in 1..Len(getStep(disk["details"])) :
            getStep(disk["details"])[k].nom \in ScrapNoms(EnrichedCheckpoint)

\* A finished run over three DetailRecords that left a placeholder and a match.
C3_Witness ==
    /\ sir.pc = "done"
    /\ Len(sir.companiesToEnrich) = 3
    /\ Cardinality(sir.processed) = 3
    /\ \E k \in 1..Len(EnrichedCheckpoint) : EnrichedCheckpoint[k].sirene_siren = "null"
    /\ \E k \in 1..Len(EnrichedCheckpoint) : EnrichedCheckpoint[k].sirene_siren /= "null"

\* C4 as stated: a DetailRecord being processed has a name that is not in the
\* enriched checkpoint, names persisted earlier in the same run included.
C4_NeverProcessedWhenInCheckpoint ==
    SirProcessing => SirCompany.nom \notin ScrapNoms(EnrichedCheckpoint)

\* C4 amended: a DetailRecord is processed if and only if its name is not in
\* the enriched checkpoint as read at stage start, and each processed
\* DetailRecord makes at most one search request (none when not processed).
C4_ProcessedIffNotInReadCheckpoint ==
    sir.pc /= "off" =>
        \A k \in 1..Len(sir.companiesToEnrich) :
            /\ k \in sir.processed
                   => sir.companiesToEnrich[k].nom \notin ScrapNoms(sir.read)
            /\ k < sir.i
                   => (k \in sir.processed
                          <=> sir.companiesToEnrich[k].nom \notin ScrapNoms(sir.read))
            /\ sir.fetches[k] <= 1
            /\ sir.fetches[k] = 1 => k \in sir.processed

\* A resumed run skipped a done name and processed two DetailRecords that share
\* a name.
C4_Witness ==
    /\ sir.pc = "loop"
    /\ sir.read /= <<>>
    /\ \E k \in 1..Len(sir.companiesToEnrich) :
          k < sir.i /\ k \notin sir.processed
    /\ \E m, n \in sir.processed :
          m < n /\ sir.companiesToEnrich[m].nom = sir.companiesToEnrich[n].nom

\* C5: one completed checkpoint write per processed DetailRecord; between two
\* DetailRecords the checkpoint equals the list in memory; while a
\* DetailRecord is processed the checkpoint holds none of its records.
C5_OneWritePerDetailRecord ==
    /\ sir.pc \in {"loop", "done"}
          => /\ sir.writes = Cardinality(sir.processed)
             /\ EnrichedCheckpoint = sir.enrichedCompanies
    /\ SirProcessing
          => /\ sir.writes = Cardinality(sir.processed) - 1
             /\ EnrichedCheckpoint = SubSeq(sir.enrichedCompanies, 1, sir.base)
    /\ sir.pc = "writing"
          => /\ sir.writes = Cardinality(sir.processed) - 1
             /\ EnrichedCheckpoint = <<>>

\* A DetailRecord with two match records has been written, in one write.
C5_Witness ==
    /\ sir.pc = "loop"
    /\ sir.writes = 2
    /\ Len(sir.enrichedCompanies) = sir.base + 2
    /\ EnrichedCheckpoint = sir.enrichedCompanies

\* C6: after a kill, the checkpoint read on restart holds the results of every
\* item whose processing (its setStep included) completed before the kill.
C6_CompletedItemsSurviveKill ==
    sir.pc = "off" => IsPrefix(sir.saved, EnrichedCheckpoint)

\* ------------------------------------------------ properties, Detail Fetch
DetailsCheckpoint == getStep(disk["details"])

Liens(recs) == {recs[k].lien : k \in 1..Len(recs)}

\* C7 as stated: a run started right after a run that returned leaves the
\* details checkpoint as that run left it, whatever getDetails does.
C7_SecondRunChangesNothing ==
    (det.pc = "done" /\ det.consec) => DetailsCheckpoint = det.prevEnd

\* C7 amended: the second run keeps the first run's checkpoint as a prefix,
\* calls getDetails only for links absent from it, appends records only for
\* such links, and leaves it equal when every listed link is in it.
C7_SecondRunOnlyAddsMissingLinks ==
    (det.pc = "done" /\ det.consec) =>
        /\ IsPrefix(det.prevEnd, DetailsCheckpoint)
        /\ \A k \in det.called : det.urlsToScrape[k].lien \notin Liens(det.prevEnd)
        /\ \A k \in (Len(det.prevEnd) + 1)..Len(DetailsCheckpoint) :
              DetailsCheckpoint[k].lien \notin Liens(det.prevEnd)
        /\ Liens(det.urlsToScrape) \subseteq Liens(det.prevEnd)
              => DetailsCheckpoint = det.prevEnd

\* A second run in a row skipped a link the first run had saved and appended
\* a record for a link whose call had failed in the first run.
C7_Witness ==
    /\ det.pc = "done" /\ det.consec
    /\ det.prevEnd /= <<>>
    /\ Len(DetailsCheckpoint) > Len(det.prevEnd)

\* ------------------------------------------------ properties, LinkedIn stage
FinalCheckpoint == getStep(disk["final"])

LinIndices == 1..Len(lin.companiesToEnrich)

\* The eligible records the loop of this run has finished with.
LinPassed == {k \in LinIndices : k < lin.i}

\* Between two records (or after the last one).
LinBetweenRecords == lin.pc \in {"loop", "done"}

\* The position in finalData of the record pushed for eligible record k.
LinPosOf(k) ==
    Len(lin.read) + Cardinality({n \in 1..k : lin.appended[n] > 0})

\* A record is being looked up (between the skip test and the save).
LinProcessing == lin.pc \in {"scan", "search", "push", "catch", "writing"}

\* C8: for every eligible enriched record whose scrap_nom is not in the final
\* checkpoint read at stage start, exactly one record is appended to the final
\* data, and that data is the written checkpoint before the next record is
\* started; a record whose scrap_nom is in it gets none; no record is ever
\* appended twice.
C8_ExactlyOneFinalRecord ==
    /\ \A k \in LinIndices : lin.appended[k] <= 1
    /\ \A k \in LinPassed :
          lin.appended[k] =
             IF lin.companiesToEnrich[k].scrap_nom \in ScrapNoms(lin.read) THEN 0 ELSE 1
    /\ \A k \in LinPassed :
          lin.appended[k] = 1 =>
             /\ LinPosOf(k) <= Len(lin.finalData)
             /\ \E u \in PageLinks \cup {"", Sentinel} :
                   lin.finalData[LinPosOf(k)] = FinalCompany(lin.companiesToEnrich[k], u)
    /\ LinBetweenRecords =>
          /\ FinalCheckpoint = lin.finalData
          /\ Len(lin.finalData) = Len(lin.read) + Cardinality({k \in LinIndices : lin.appended[k] = 1})

\* Two records appended in one run, one by the normal path and one by the
\* outer catch, both written, and a third eligible record skipped.
C8_Witness ==
    /\ lin.pc = "done"
    /\ \E k \in LinIndices : lin.appended[k] = 0
    /\ \E k, m \in LinIndices :
          /\ k < m /\ lin.appended[k] = 1 /\ lin.appended[m] = 1
          /\ lin.finalData[LinPosOf(k)].linkedinUrl = "li/company/acme"
          /\ lin.finalData[LinPosOf(m)].linkedinUrl = Sentinel
          /\ lin.nav[m] = "loaded"
    /\ FinalCheckpoint = lin.finalData

\* C9: a record that was in a completely written final checkpoint is never
\* looked up again, in this run or any later one.
C9_PersistedNeverProcessedAgain ==
    LinProcessing => LinCompany \notin lin.persisted

LinUrlOf(k) == lin.finalData[LinPosOf(k)].linkedinUrl

\* C11: every timeout-class outcome (the final navigation attempt timed out,
\* or the fallback search page timed out) is recorded with the empty profile
\* URL, never with the sentinel.
C11_TimeoutsRecordedAsNotFound ==
    \A k \in LinPassed :
        (lin.appended[k] = 1
           /\ (lin.nav[k] \in {"timeouts", "error-timeout"} \/ lin.exc[k] = "search-timeout"))
        => LinUrlOf(k) = ""

\* C12: a record during whose processing the link scan or the fallback search
\* threw was logged by the outer catch and appended once with the sentinel;
\* the loop went on, and between two records the written checkpoint holds the
\* record, so its name counts as done.
C12_OuterCatchPersistsSentinel ==
    \A k \in LinPassed :
        lin.exc[k] /= "none" =>
            /\ k \in lin.caught
            /\ lin.appended[k] = 1
            /\ LinUrlOf(k) = Sentinel
            /\ LinBetweenRecords =>
                  /\ FinalCheckpoint = lin.finalData
                  /\ lin.companiesToEnrich[k].scrap_nom \in ScrapNoms(FinalCheckpoint)

\* The scan threw for one record and the search for a later one; both are in
\* the written checkpoint with the sentinel.
C12_Witness ==
    /\ lin.pc = "done" /\ FinalCheckpoint = lin.finalData
    /\ \E k, m \in LinIndices :
          /\ k < m
          /\ lin.exc[k] = "scan" /\ LinUrlOf(k) = Sentinel
          /\ lin.exc[m] = "search-error" /\ LinUrlOf(m) = Sentinel

\* ------------------------------------------------------- properties, main
\* The pc values of main while a stage runs, and the stage of a pc.
MainStageOf(pc) ==
    CASE pc \in {"list", "save"} -> "list"
      [] pc \in {"launch", "linkedin"} -> "linkedin"
      [] pc \in {"details", "sirene", "export"} -> pc
      [] OTHER -> "none"

MainStarted == Range(main.started)

\* The file a stage produces.
OutputOf(stage) ==
    IF stage = "export" THEN CsvPath(main.sourceName, main.isTestMode)
    ELSE FilePath(main.sourceName, CheckpointOf(stage), main.isTestMode)

\* The files a stage reads or writes.
FilesOf(stage) ==
    {FilePath(main.sourceName, n, main.isTestMode) : n \in ReadsOf(stage)}
      \cup {OutputOf(stage), LogFilePath(main.sourceName, main.isTestMode)}

\* C13: once a checkpoint write has failed in a stage, the run calls no
\* further stage and does not end normally: it is still in that stage or has
\* exited with code 1.
C13_WriteFailureAborts ==
    main.failedIn /= "none" =>
        \/ MainStageOf(main.pc) = main.failedIn
        \/ main.pc = "exit1"

\* C14: exit code 1 is the exit of the catch block and of the missing-name
\* test; a name without adapter module starts no stage; after the exit no
\* stage later than the one that threw has been called, and the files those
\* stages produce are as they were when the try block was entered.
C14_FatalErrorStopsPipeline ==
    /\ (main.pc = "exit1") <=> (main.exit = "1")
    /\ main.sourceName \notin Sources => main.started = <<>> /\ main.pc /= "ended"
    /\ main.pc = "exit1" =>
          /\ IsPrefix(main.started, StageOrder)
          /\ \A k \in 1..Len(StageOrder) :
                k > Len(main.started) /\ main.sourceName \in Sources =>
                    /\ main.fs[OutputOf(StageOrder[k])] = main.atTry[OutputOf(StageOrder[k])]
                    /\ StageOrder[k] \notin main.returned

\* getList threw in a run whose later checkpoints exist: exit code 1, only
\* the list stage was called.
C14_Witness ==
    /\ main.pc = "exit1" /\ main.exit = "1"
    /\ main.started = <<"list">> /\ main.getListCalled
    /\ main.fs[OutputOf("details")] /= Absent

\* The list stage of this process is over (it returned or getList threw).
ListOver ==
    /\ "list" \in MainStarted
    /\ MainStageOf(main.pc) /= "list"

\* C16: runGetListStep calls getList exactly when the urls checkpoint read at
\* its start is empty, and then writes what getList returned (nothing when
\* getList throws); otherwise getList is not called and the urls checkpoint
\* stays as it was.
C16_ListOnlyWhenEmpty ==
    LET path == FilePath(main.sourceName, "urls", main.isTestMode)
    IN ListOver =>
          /\ main.existingUrls = getStep(main.atTry[path])
          /\ main.getListCalled <=> (Len(main.existingUrls) = 0)
          /\ Len(main.existingUrls) > 0 => main.fs[path] = main.atTry[path] /\ path \in main.io
          /\ (main.getListCalled /\ "list" \in main.returned /\ main.failedIn /= "list")
                => main.fs[path] = OkFile(main.newList)
          /\ (main.getListCalled /\ "list" \notin main.returned)
                => main.fs[path] = main.atTry[path]

\* The urls checkpoint held an entry: the stage returned without getList, the
\* pipeline ran to its end and the checkpoint is the same.
C16_Witness ==
    /\ main.pc = "ended" /\ ~main.getListCalled
    /\ Len(main.existingUrls) > 0
    /\ main.fs[FilePath(main.sourceName, "urls", main.isTestMode)]
          = main.snap[FilePath(main.sourceName, "urls", main.isTestMode)]

\* C17: the stages are called in the order list, details, sirene, linkedin,
\* export; each one is called after the one before has returned; the stage
\* that runs is the one called last; a file is read or written (the cleanup
\* aside) only by a stage that has been called.
C17_StagesInOrder ==
    /\ IsPrefix(main.started, StageOrder)
    /\ main.returned \subseteq MainStarted
    /\ \A k \in 1..Len(main.started) :
          k < Len(main.started) => main.started[k] \in main.returned
    /\ MainStageOf(main.pc) /= "none" =>
          /\ main.started /= <<>>
          /\ main.started[Len(main.started)] = MainStageOf(main.pc)
          /\ MainStageOf(main.pc) \notin main.returned
    /\ main.pc = "ended" => main.started = StageOrder /\ main.returned = MainStarted
    /\ \A p \in main.io :
          \/ p \in TrialFilesOf(main.sourceName) /\ main.isTestMode /\ main.snap[p] /= Absent
          \/ \E stage \in MainStarted : p \in FilesOf(stage)

\* A complete run: the five stages were called and returned, and the export
\* wrote the entities file.
C17_Witness ==
    /\ main.pc = "ended"
    /\ main.started = StageOrder
    /\ CsvPath(main.sourceName, main.isTestMode) \in main.io
    /\ main.fs[OutputOf("linkedin")] = Content("linkedin")

\* A run touches only files of its namespace and source, and leaves every
\* file of the other namespace as it was at process start.
NamespaceFrame ==
    main.pc /= "idle" =>
        /\ \A p \in main.io : p.trial = main.isTestMode /\ p.source \in {main.sourceName, ""}
        /\ \A p \in Paths : p.trial /= main.isTestMode => main.fs[p] = main.snap[p]
        /\ \A p \in Paths : p.source = "other" => main.fs[p] = main.snap[p]

\* C18 as stated: the frame, and every test-mode run finds the trial
\* checkpoints of its source absent when the first stage is called.
C18_TrialRunStartsEmpty ==
    /\ NamespaceFrame
    /\ (main.isTestMode /\ main.started /= <<>>) =>
          \A p \in TrialFilesOf(main.sourceName) : main.atTry[p] = Absent

\* C18: a run touches only files of its namespace and leaves the other
\* namespace and the other source unchanged; a test-mode run whose cleanup
\* did not fail finds the trial checkpoints and log of its source absent when
\* the first stage is called.
C18_NamespaceIsolation ==
    /\ NamespaceFrame
    /\ (main.isTestMode /\ main.started /= <<>> /\ ~main.cleanFailed) =>
          \A p \in TrialFilesOf(main.sourceName) : main.atTry[p] = Absent

\* A test-mode run over the files of complete earlier runs in both
\* namespaces: the cleanup removed the trial files, the run wrote new ones and
\* ended.
C18_Witness ==
    /\ main.pc = "ended" /\ main.isTestMode /\ ~main.cleanFailed
    /\ main.snap = MainFs("all", "all")
    /\ main.fs[FilePath(main.sourceName, "final", TRUE)] = Content("linkedin")
    /\ main.fs[FilePath(main.sourceName, "details", TRUE)] = Absent

\* --------------------------------------------------- properties, the export
\* C15: after the export every record of the final checkpoint whose profile
\* URL is the sentinel has the sentinel in the profile-URL column of its row
\* of the entities output, so that its row differs from the row of a record
\* that was looked up and not found.
C15_SentinelVisibleInExport ==
    csv.pc = "done" =>
        \A k \in 1..Len(csv.entreprises) :
            getStep(disk["final"])[k].linkedinUrl = Sentinel =>
                csv.entreprises[k].linkedin = Sentinel

\* ------------------------------------- properties, Sirene stage (records)
\* Between two DetailRecords of a run (or after the last one).
SirBetweenRecords == sir.pc \in {"loop", "done"}

\* The DetailRecords this run has finished with.
SirFinished == {k \in sir.processed : k < sir.i}

\* The records of the enriched checkpoint that stem from DetailRecord k
\* (links are unique among the DetailRecords).
SirRecordsOf(k) ==
    SelectSeq(EnrichedCheckpoint,
              LAMBDA r : r.scrap_lien = sir.companiesToEnrich[k].lien)

\* The DetailRecord processed last in this run has been written.
SirLastWritten == SirBetweenRecords /\ sir.last /= 0

\* The scrap_ fields other than the website equal the DetailRecord's fields.
SameScrapFields(r, company) ==
    /\ r.scrap_nom = company.nom
    /\ r.scrap_lien = company.lien
    /\ r.scrap_codePostal = company.codePostal

\* C19 as stated: for a DetailRecord with a postal code for which a candidate
\* passed the name filter, the checkpoint holds a record whose scrap_ fields
\* all equal the DetailRecord's fields, the website included.
C19_ProvenanceEqualsDetail ==
    (SirLastWritten /\ sir.lookup = "some") =>
        \E n \in 1..Len(EnrichedCheckpoint) :
            /\ SameScrapFields(EnrichedCheckpoint[n],
                               sir.companiesToEnrich[sir.last])
            /\ EnrichedCheckpoint[n].scrap_website =
                   sir.companiesToEnrich[sir.last].website

\* C19: for such a DetailRecord the checkpoint holds at least one record that
\* stems from it; every record that stems from a finished DetailRecord has
\* equal scrap_nom, scrap_lien and scrap_codePostal; a match record has as
\* scrap_website the origin of the DetailRecord's website followed by "/",
\* and a placeholder has the website unchanged.
C19_ProvenanceUpToWebsiteOrigin ==
    SirBetweenRecords =>
        /\ EnrichedCheckpoint = sir.enrichedCompanies
        /\ (sir.last /= 0 /\ sir.lookup = "some") =>
               Len(SirRecordsOf(sir.last)) >= 1
        /\ \A k \in SirFinished :
              \A n \in 1..Len(SirRecordsOf(k)) :
                  LET r == SirRecordsOf(k)[n]
                      company == sir.companiesToEnrich[k]
                  IN /\ SameScrapFields(r, company)
                     /\ r.scrap_website =
                           IF r.sirene_siren = "null" THEN company.website
                           ELSE CASE company.website = "https://x.fr/p" -> "https://x.fr/"
                                  [] company.website = "ftp://x.fr/f" -> "null/"
                                  [] OTHER -> company.website

\* Two written match records of one DetailRecord whose website differs from
\* the scraped one.
C19_Witness ==
    /\ SirLastWritten /\ sir.lookup = "some"
    /\ sir.companiesToEnrich[sir.last].website = "https://x.fr/p"
    /\ Len(SirRecordsOf(sir.last)) = 2
    /\ SirRecordsOf(sir.last)[1].scrap_website = "https://x.fr/"

\* C20: a DetailRecord without postal code, or whose lookup gave no
\* candidate, has exactly one record in the checkpoint once it is written:
\* the placeholder (scrap_ copy, sirene_siren null, no dirigeants), the only
\* record appended for it. For a DetailRecord without postal code no search
\* request is made and neither id counter moves.
C20_ExactlyOnePlaceholder ==
    /\ (SirLastWritten /\ sir.lookup \in {"nopostal", "zero"}) =>
          /\ EnrichedCheckpoint = sir.enrichedCompanies
          /\ Len(sir.enrichedCompanies) = sir.base + 1
          /\ Len(SirRecordsOf(sir.last)) = 1
          /\ SameScrapFields(SirRecordsOf(sir.last)[1],
                             sir.companiesToEnrich[sir.last])
          /\ SirRecordsOf(sir.last)[1].scrap_website =
                 sir.companiesToEnrich[sir.last].website
          /\ SirRecordsOf(sir.last)[1].sirene_siren = "null"
          /\ SirRecordsOf(sir.last)[1].dirigeants = <<>>
    /\ sir.lookup = "nopostal" =>
          /\ sir.fetches[sir.last] = 0
          /\ ~Truthy(sir.companiesToEnrich[sir.last].codePostal)
          /\ sir.companyIdCounter = sir.idBase
          /\ SirProcessing =>
                sir.dirigeantsIdCounter = SumLen(sir.enrichedCompanies)

\* After a DetailRecord that consumed a company id, a DetailRecord without
\* postal code got its single placeholder, written to the checkpoint.
C20_Witness ==
    /\ SirLastWritten /\ sir.lookup = "nopostal"
    /\ sir.companyIdCounter > 0
    /\ Len(SirRecordsOf(sir.last)) = 1
    /\ Len(EnrichedCheckpoint) >= 2

\* ------------------------------------ properties, Sirene stage (failures)
\* C21: a search request that fails (status, network, decoding) or a throw
\* while a candidate is handled is logged with the company's name and does
\* not end the stage: the finally block appends the placeholder when no match
\* record was appended, the checkpoint is written, and the stage ends only
\* when the loop has gone through every DetailRecord.
C21_LookupFailureContained ==
    /\ sir.lookup = "failed" =>
          /\ sir.logged = sir.companiesToEnrich[sir.last].nom
          /\ sir.pc \in {"finally", "writing", "loop", "done"}
    /\ (sir.last /= 0 /\ sir.logged /= "none") =>
          /\ sir.logged = sir.companiesToEnrich[sir.last].nom
          /\ sir.lookup \in {"failed", "some"}
    /\ sir.pc = "done" => sir.i > Len(sir.companiesToEnrich)
    /\ (SirLastWritten /\ sir.logged /= "none") =>
          /\ EnrichedCheckpoint = sir.enrichedCompanies
          /\ sir.i > sir.last
          /\ Len(EnrichedCheckpoint) >= sir.base + 1
          /\ ~sir.foundOneResult =>
                /\ Len(EnrichedCheckpoint) = sir.base + 1
                /\ EnrichedCheckpoint[sir.base + 1].sirene_siren = "null"
                /\ EnrichedCheckpoint[sir.base + 1].dirigeants = <<>>
                /\ SameScrapFields(EnrichedCheckpoint[sir.base + 1],
                                   sir.companiesToEnrich[sir.last])
          /\ sir.foundOneResult =>
                \A n \in (sir.base + 1)..Len(EnrichedCheckpoint) :
                    EnrichedCheckpoint[n].sirene_siren /= "null"

\* A failed search request was logged, its placeholder is written and the
\* loop stands before a further DetailRecord.
C21_Witness ==
    /\ SirLastWritten /\ sir.lookup = "failed"
    /\ sir.logged = sir.companiesToEnrich[sir.last].nom
    /\ sir.pc = "loop" /\ sir.i <= Len(sir.companiesToEnrich)
    /\ EnrichedCheckpoint[Len(EnrichedCheckpoint)].sirene_siren = "null"

\* ----------------------------------- properties, LinkedIn stage (selection)
\* The first link of a list that contains "/company/" ("" when there is none).
FirstCompanyLink(links) ==
    LET at == {k \in 1..Len(links) : IsCompanyLink(links[k])}
    IN IF at = {} THEN "" ELSE links[CHOOSE k \in at : \A m \in at : k <= m]

\* The record being processed is pushed by line 268 (not by the outer catch).
LinPushedByTry == lin.pc = "writing" /\ lin.i \notin lin.caught

\* C22: after the on-site scan the selected URL is the first link of the page
\* that contains "/company/" when there is one, otherwise the first link of
\* the page, and it is empty only when the page has no platform link; a
\* non-empty selection is the profile URL of the record pushed.
C22_ScanSelectsCompanyFirst ==
    lin.scanned.done =>
        LET links == lin.scanned.links
            expected == IF FirstCompanyLink(links) /= "" THEN FirstCompanyLink(links)
                        ELSE IF Len(links) > 0 THEN links[1]
                        ELSE ""
        IN /\ (expected = "") <=> (links = <<>>)
           /\ links /= <<>> =>
                 /\ lin.pc \in {"push", "writing"}
                 /\ lin.selectedUrl = expected
           /\ lin.pc = "search" => (links = <<>> /\ lin.selectedUrl = "")
           /\ (LinPushedByTry /\ links /= <<>>) =>
                 lin.finalData[Len(lin.finalData)].linkedinUrl = expected

\* The page lists a personal profile before a company page: the company page
\* is the profile URL of the record pushed.
C22_Witness ==
    /\ LinPushedByTry
    /\ lin.scanned.done
    /\ lin.scanned.links = <<"li/in/jdoe", "li/company/acme">>
    /\ lin.finalData[Len(lin.finalData)].linkedinUrl = "li/company/acme"

\* The first link of a list that contains "/showcase/" ("" when there is none).
FirstShowcaseLink(links) ==
    LET at == {k \in 1..Len(links) : IsShowcaseLink(links[k])}
    IN IF at = {} THEN "" ELSE links[CHOOSE k \in at : \A m \in at : k <= m]

\* C27: the fallback search runs only for a record with a usable website
\* whose page was loaded and whose scan selected no link; after it the
\* selected URL is the first unwrapped result that contains "/company/",
\* otherwise the first that contains "/showcase/", otherwise empty, and that
\* is the profile URL of the record pushed.
C27_SearchOnlyAfterEmptyScan ==
    /\ (lin.pc = "search" \/ lin.searched.done) =>
          /\ UsableWebsite(LinCompany.scrap_website)
          /\ lin.nav[lin.i] = "loaded"
          /\ lin.navigationSuccess
          /\ lin.scanned.done /\ lin.scanned.links = <<>>
    /\ lin.searched.done =>
          LET cleanedLinks == CleanedLinks(lin.searched.links)
              expected == IF FirstCompanyLink(cleanedLinks) /= ""
                          THEN FirstCompanyLink(cleanedLinks)
                          ELSE FirstShowcaseLink(cleanedLinks)
          IN /\ lin.pc \in {"push", "writing"}
             /\ lin.selectedUrl = expected
             /\ LinPushedByTry =>
                   lin.finalData[Len(lin.finalData)].linkedinUrl = expected

\* The search returned a personal profile and a link without target only:
\* the record is pushed with an empty profile URL.
C27_Witness ==
    /\ LinPushedByTry
    /\ lin.searched.done
    /\ lin.searched.links = <<"ddg?uddg=li/in/jdoe", "ddg?q=linkedin.com">>
    /\ lin.finalData[Len(lin.finalData)].linkedinUrl = ""

\* -------------------------------- properties, LinkedIn stage (navigation)
\* The navigation attempts for the record being processed have just ended.
LinAfterNavigation ==
    /\ lin.attempts /= <<>>
    /\ lin.pc = "scan" \/ (lin.pc = "push" /\ ~lin.navigationSuccess)

\* C28: the navigation attempts leave the sentinel exactly when the second
\* attempt failed with an error other than a timeout, whatever the first
\* attempt failed with: after a first-attempt error a loaded second attempt
\* leads to the scan with an empty URL, and a second-attempt timeout leads
\* to a record pushed with an empty URL.
C28_SentinelIffSecondAttemptError ==
    lin.attempts /= <<>> =>
        LET n1 == lin.attempts[1]
            n2 == lin.attempts[2]
        IN /\ LinAfterNavigation =>
                 /\ (lin.linkedinUrl = Sentinel) <=> (n2 = "error")
                 /\ (lin.linkedinUrl = "") <=> (n2 /= "error")
                 /\ (lin.pc = "scan") <=> (n1 = "ok" \/ n2 = "ok")
           /\ n2 \in {"timeout", "error"} =>
                 /\ lin.pc \in {"push", "writing"}
                 /\ lin.selectedUrl = ""
                 /\ ~lin.scanned.done /\ ~lin.searched.done
                 /\ lin.pc = "writing" =>
                       lin.finalData[Len(lin.finalData)].linkedinUrl =
                           IF n2 = "error" THEN Sentinel ELSE ""

\* The first attempt failed with an error other than a timeout, the second
\* one timed out: the record is pushed with an empty profile URL.
C28_Witness ==
    /\ lin.pc = "writing"
    /\ lin.attempts = <<"error", "timeout">>
    /\ lin.finalData[Len(lin.finalData)].linkedinUrl = ""

\* ----------------------------------- properties, LinkedIn stage (browser)
\* C25: when a run of the stage has ended, by the end of the loop or by an
\* exception, a browser that was launched is closed; it is open while the
\* loop runs, and a run ends without a closed browser only when
\* puppeteer.launch itself threw.
C25_BrowserClosedOnEveryExit ==
    /\ lin.pc = "done" => (lin.browser = "closed" /\ lin.thrown = "none")
    /\ lin.pc = "threw" =>
          /\ lin.thrown \in {"launch", "setup", "catch"}
          /\ lin.thrown = "launch" => lin.browser = "none"
          /\ lin.thrown \in {"setup", "catch"} => lin.browser = "closed"
    /\ lin.pc \in {"loop", "scan", "search", "push", "catch", "writing"} =>
          (lin.browser = "open" /\ lin.thrown = "none")

\* An exception ended the run inside the loop, after a record had been
\* written, and the browser is closed.
C25_Witness ==
    /\ lin.pc = "threw" /\ lin.thrown = "catch"
    /\ lin.browser = "closed"
    /\ lin.i > 1 /\ FinalCheckpoint /= <<>>

\* ------------------------------- properties, LinkedIn stage (match records)
\* C23: the records the stage takes as input are the match records of the
\* enriched checkpoint, in its order; every record of the final data and of
\* the final checkpoint carries a legal id, and is the copy of a match record
\* of the enriched checkpoint.
C23_FinalHoldsMatchRecordsOnly ==
    /\ \A k \in LinIndices :
          /\ lin.companiesToEnrich[k].sirene_siren /= "null"
          /\ \E n \in 1..Len(EnrichedCheckpoint) :
                lin.companiesToEnrich[k] = EnrichedCheckpoint[n]
    /\ lin.pc \notin {"off", "threw"} =>
          Len(lin.companiesToEnrich) =
              Cardinality({n \in 1..Len(EnrichedCheckpoint) :
                             EnrichedCheckpoint[n].sirene_siren /= "null"})
    /\ \A k \in 1..Len(lin.finalData) : lin.finalData[k].sirene_siren /= "null"
    /\ \A k \in 1..Len(FinalCheckpoint) :
          /\ FinalCheckpoint[k].sirene_siren /= "null"
          /\ \E n \in 1..Len(EnrichedCheckpoint) :
                /\ EnrichedCheckpoint[n].sirene_siren /= "null"
                /\ FinalCheckpoint[k].scrap_lien = EnrichedCheckpoint[n].scrap_lien
                /\ FinalCheckpoint[k].id = EnrichedCheckpoint[n].id

\* A finished run over an enriched checkpoint with a placeholder between two
\* match records: the final checkpoint holds the two match records.
C23_Witness ==
    /\ lin.pc = "done"
    /\ Len(EnrichedCheckpoint) = 3
    /\ EnrichedCheckpoint[1].sirene_siren /= "null"
    /\ EnrichedCheckpoint[2].sirene_siren = "null"
    /\ EnrichedCheckpoint[3].sirene_siren /= "null"
    /\ Len(FinalCheckpoint) = 2

\* ------------------------------------ properties, Sirene stage (discards)
\* C29 as stated: when candidates that are well formed are handled for a
\* DetailRecord that lacks a website (or a name, or a postal code), no error
\* is raised, no record is appended for them, no principal id is consumed,
\* and the single placeholder is appended in the end.
C29_DiscardIsSilent ==
    (/\ sir.last /= 0 /\ sir.lookup = "some" /\ sir.cause /= "siege"
     /\ \/ ~Truthy(sir.companiesToEnrich[sir.last].website)
        \/ ~Truthy(sir.companiesToEnrich[sir.last].nom)
        \/ ~Truthy(sir.companiesToEnrich[sir.last].codePostal)) =>
        /\ sir.logged = "none" /\ sir.cause = "none"
        /\ ~sir.foundOneResult
        /\ sir.dirigeantsIdCounter = SumLen(sir.enrichedCompanies)
        /\ sir.pc \in {"cand", "finally"} => Len(sir.enrichedCompanies) = sir.base
        /\ SirLastWritten =>
              /\ Len(sir.enrichedCompanies) = sir.base + 1
              /\ sir.enrichedCompanies[sir.base + 1].sirene_siren = "null"

\* ------------------------------------- properties, ids through the export
\* The final checkpoint an uninterrupted run of enrichWithLinkedIn writes,
\* from an absent one, for an enriched checkpoint (the profile URLs aside):
\* doneNames is empty, so every match record is copied, in order.
FinalOf(enriched) ==
    [k \in 1..Len(EligibleCompanies(enriched)) |->
        FinalCompany(EligibleCompanies(enriched)[k], "")]

\* C24 as stated: every principal row exported from the final checkpoint
\* made from the enriched checkpoint carries the id of the entity record
\* that holds the principal, and exactly one entity row has that id.
C24_PrincipalRowsNameOneEntity ==
    LET final == FinalOf(EnrichedCheckpoint)
    IN \A k \in 1..Len(final) :
          \A n \in 1..Len(DirigeantRows(final[k])) :
              /\ DirigeantRows(final[k])[n].idEntreprise = final[k].id
              /\ Cardinality({m \in 1..Len(final) :
                     CompanyRow(final[m]).recordId =
                         DirigeantRows(final[k])[n].idEntreprise}) = 1

\* ------------------------------------- properties, Detail Fetch, resumption
\* C30: where the urls listing has pairwise distinct links, the details
\* checkpoint (and the list a run holds in memory) never holds two records
\* with the same link, through any runs, kills and resumes; and getDetails is
\* never called for a link of the details checkpoint read at stage start.
C30_NoDuplicateLinkNoRepeatedCall ==
    /\ DistinctLinks(getStep(disk["urls"])) =>
          /\ DistinctLinks(DetailsCheckpoint)
          /\ DistinctLinks(det.detailsAlreadyDone)
    /\ \A k \in det.called : det.urlsToScrape[k].lien \notin Liens(det.read)

\* A run resumed on a non-empty checkpoint skipped the links it read, called
\* getDetails for another one and returned with one record per listed link.
C30_Witness ==
    /\ det.pc = "done"
    /\ det.read /= <<>> /\ det.called /= {}
    /\ DistinctLinks(det.urlsToScrape)
    /\ Len(det.urlsToScrape) >= 2
    /\ Len(DetailsCheckpoint) = Len(det.urlsToScrape)

\* ------------------------------------------- properties, financial fields
\* The candidate has no financial history: the mapping is absent or empty.
NoFinancialHistory(d) == ~d.finances.has \/ DOMAIN d.finances.byYear = {}

\* C26 as stated: with a financial-history mapping the revenue year is the
\* maximum numeric key and the revenue is the ca stored under that key;
\* without financial history (mapping absent or empty) the revenue, the
\* revenue year and the headcount bracket of the match record are all empty.
C26_FinancialFieldsAsStated ==
    sir.fin.pc = "derived" =>
        LET d == sir.fin.d
            years == {NumberOf(key) : key \in DOMAIN d.finances.byYear}
        IN /\ ~NoFinancialHistory(d) =>
                \E key \in DOMAIN d.finances.byYear :
                    /\ \A x \in years : x <= NumberOf(key)
                    /\ sir.fin.sirene_annee_ca = Num(NumberOf(key))
                    /\ d.finances.byYear[key] /= JsUndefined =>
                           sir.fin.sirene_ca = d.finances.byYear[key]
           /\ NoFinancialHistory(d) =>
                /\ sir.fin.sirene_ca = JsEmpty
                /\ sir.fin.sirene_annee_ca = JsEmpty
                /\ sir.fin.sirene_effectifs = JsEmpty

\* --------------------------------------- properties, Detail Fetch, failures
\* The items of this run the loop is done with.
DetPassed == {k \in 1..Len(det.urlsToScrape) : k < det.i \/ det.pc = "done"}

\* C31: a failure of getDetails for one item is caught and logged; the item
\* gets no record in the details checkpoint; the loop goes on with the items
\* after it (each is skipped as done or getDetails is called for it); and
\* in the next run the item is not in the checkpoint read at stage start and
\* getDetails is called for it again. The links of a listing are pairwise
\* distinct.
C31_FailedItemRetriedNextRun ==
    /\ det.pc /= "off" => det.logged = det.failed
    /\ det.pc /= "off" =>
          det.failed \subseteq {det.urlsToScrape[k].lien : k \in DetPassed}
    /\ \A k \in DetPassed :
          k \in det.called \/ det.urlsToScrape[k].lien \in Liens(det.read)
    /\ DistinctLinks(det.urlsToScrape) =>
          /\ det.pc /= "off" =>
                /\ det.failed \cap Liens(DetailsCheckpoint) = {}
                /\ det.failed \cap Liens(det.detailsAlreadyDone) = {}
          /\ det.pc /= "off" =>
                /\ det.prevFailed \cap Liens(det.read) = {}
                /\ \A k \in DetPassed :
                      det.urlsToScrape[k].lien \in det.prevFailed
                          => k \in det.called

\* The first of two items failed in one run while the second was saved; the
\* next run called getDetails for the first again and saved its record.
C31_Witness ==
    /\ det.pc = "done"
    /\ Len(det.urlsToScrape) = 2 /\ DistinctLinks(det.urlsToScrape)
    /\ det.prevFailed = {det.urlsToScrape[1].lien}
    /\ det.called = {1}
    /\ Len(det.read) = 1 /\ Len(DetailsCheckpoint) = 2

\* ------------------------------------------- properties, append-only growth
\* C32 (details checkpoint): across runs, kills and resumes, the list a
\* setStep is writing has the list persisted by the write before it as a
\* prefix: records are only appended, none is modified, reordered or removed.
C32_LaterWriteExtendsEarlier ==
    det.pc = "writing" => IsPrefix(det.written, det.detailsAlreadyDone)

\* ------------------------------------ properties, Sirene stage (principals)
\* The candidate handled last was pushed: its match record is the last record
\* of enrichedCompanies.
SirJustPushed == sir.pc = "cand" /\ sir.pushed.has

\* C33: the principal list of a match record consists of exactly the
\* registry's directors that are physical persons with a role not on the
\* exclusion list, in registry order; each has a principal id no principal of
\* the list had before, and idEntreprise equal to the id of the match record.
C33_PrincipalsAreTheKeptDirectors ==
    SirJustPushed =>
        LET recs == sir.enrichedCompanies
            rec == recs[Len(recs)]
            ds == sir.pushed.ds
            kept == {p \in 1..Len(ds) : ds[p] = "pp"}
            before == AllPrincipals(SubSeq(recs, 1, Len(recs) - 1))
        IN /\ {rec.dirigeants[k].nom : k \in 1..Len(rec.dirigeants)} = kept
           /\ Len(rec.dirigeants) = Cardinality(kept)
           /\ \A k, n \in 1..Len(rec.dirigeants) :
                 k < n => /\ rec.dirigeants[k].nom < rec.dirigeants[n].nom
                          /\ rec.dirigeants[k].id /= rec.dirigeants[n].id
           /\ \A k \in 1..Len(rec.dirigeants) :
                 /\ rec.dirigeants[k].idEntreprise = rec.id
                 /\ \A n \in 1..Len(before) :
                       before[n].id /= rec.dirigeants[k].id

\* After a record with a principal, a candidate whose directors are a legal
\* person followed by a physical person got a match record with one
\* principal, the second director.
C33_Witness ==
    /\ SirJustPushed
    /\ sir.pushed.ds = <<"pm", "pp">>
    /\ Len(sir.enrichedCompanies) >= 2
    /\ sir.dirigeantsIdCounter = 2
    /\ sir.enrichedCompanies[Len(sir.enrichedCompanies)].dirigeants[1].nom = 2

\* --------------------------------------------- properties, label lookups
\* The label a chain gives by its own outcome alone: "" when its request or
\* its decoding threw, the division's name for an answer that holds it, no
\* label for an answer without one.
LabelByOwnOutcome(l) ==
    IF sir.geo.chain[l].failed THEN ""
    ELSE IF sir.geo.chain[l].body = "object"
         THEN GeoObject(l, sir.geo.siege[l]).nom
         ELSE "undefined"

C35_EveryMatchRecordHasFinalRecord ==
    lin.pc = "done" =>
        \A k \in 1..Len(EnrichedCheckpoint) :
            Truthy(EnrichedCheckpoint[k].sirene_siren) =>
                \E n \in 1..Len(FinalCheckpoint) :
                    FinalCheckpoint[n].id = EnrichedCheckpoint[k].id

\* ------------------------------------- properties, Sirene stage (resuming)
\* A list of enriched records with the entity and principal ids left out.
WithoutIds(recs) ==
    [k \in 1..Len(recs) |->
        [recs[k] EXCEPT
            !.id = 0,
            !.dirigeants = [n \in 1..Len(recs[k].dirigeants) |->
                               [@[n] EXCEPT !.id = 0, !.idEntreprise = 0]]]]

\* C36: with a registry that answers each search the same way every time and
\* pairwise distinct DetailRecord names, a run that returns, after any number
\* of kills and restarts, leaves in the enriched checkpoint the sequence of
\* records of one uninterrupted run, the entity and principal ids aside.
C36_ResumedRunEqualsSingleRun ==
    sir.pc = "done" =>
        WithoutIds(EnrichedCheckpoint) =
            WithoutIds(RunOnce(sir.registry, sir.companiesToEnrich))

\* A run that started on the records an earlier, killed run had written
\* skipped them, wrote the records of the remaining DetailRecords and
\* returned; the checkpoint holds two match records of one DetailRecord.
C36_Witness ==
    /\ sir.pc = "done"
    /\ sir.read /= <<>> /\ sir.writes > 0
    /\ Len(EnrichedCheckpoint) > Len(sir.companiesToEnrich)
    /\ \E k \in 1..Len(EnrichedCheckpoint) : EnrichedCheckpoint[k].sirene_siren = "null"

\* --------------------------- properties, Sirene stage (placeholder or match)
\* Exactly one placeholder, or one or more match records.
PlaceholderOrMatches(recs) ==
    \/ Len(recs) = 1 /\ recs[1].sirene_siren = "null"
    \/ /\ Len(recs) >= 1
       /\ \A n \in 1..Len(recs) : recs[n].sirene_siren /= "null"

\* The records the loop body has appended for the current DetailRecord.
SirAppended ==
    SubSeq(sir.enrichedCompanies, sir.base + 1, Len(sir.enrichedCompanies))

\* C37: the records appended for one DetailRecord are exactly one
\* placeholder or one or more match records, never both, also when a
\* candidate threw after others had been appended; the same holds for the
\* records of every finished DetailRecord in the checkpoint.
C37_PlaceholderXorMatches ==
    /\ sir.pc = "writing" => PlaceholderOrMatches(SirAppended)
    /\ SirBetweenRecords =>
          \A k \in SirFinished : PlaceholderOrMatches(SirRecordsOf(k))

\* A candidate without siege object threw after a first candidate of the
\* same DetailRecord had been appended: the finally block added no
\* placeholder.
C37_Witness ==
    /\ sir.pc = "writing"
    /\ sir.cause = "siege"
    /\ Len(SirAppended) = 1
    /\ SirAppended[1].sirene_siren /= "null"

\* ------------------------------- properties, Sirene stage (failed lookups)
\* The search request has been made for the current DetailRecord.
SirLookedUp ==
    /\ sir.pc \in {"cand", "finally", "writing"}
    /\ sir.lookup \in {"failed", "zero", "some"}

\* No earlier DetailRecord of this run has the name of the current one, so a
\* name of failedDone was put there by an earlier run.
SirFirstOfName ==
    \A k \in 1..(sir.i - 1) : sir.companiesToEnrich[k].nom /= SirCompany.nom

\* C38: a DetailRecord whose search request failed in one run and whose
\* placeholder was written is never looked up again in a later run.
C38_FailedLookupNeverRepeated ==
    (SirLookedUp /\ SirFirstOfName) => SirCompany.nom \notin sir.failedDone

\* ------------------------------ properties, Detail Fetch (unreadable file)
\* Links of the items for which getDetails was called in this run.
DetCalledLinks == {det.urlsToScrape[k].lien : k \in det.called}

\* C40: getStep gives the empty list for a file that does not exist and for
\* one that does not parse; a run that starts on such a file skips no item,
\* and its first completed setStep leaves a file that holds the records of
\* this run only.
C40_UnreadableReadAsEmptyThenOverwritten ==
    (det.pc /= "off" /\ det.startSt \in {"absent", "torn"}) =>
        /\ det.read = <<>>
        /\ det.doneLinks = {}
        /\ \A k \in 1..(det.i - 1) : k \in det.called
        /\ (det.pc \in {"loop", "done"} /\ det.detailsAlreadyDone /= <<>>) =>
               /\ disk["details"] = OkFile(det.detailsAlreadyDone)
               /\ \A k \in 1..Len(det.detailsAlreadyDone) :
                      det.detailsAlreadyDone[k].lien \in DetCalledLinks
               /\ Len(det.detailsAlreadyDone) <= Cardinality(det.called)

\* A run started on a file cut off by a kill; an earlier run had completely
\* written a non-empty list; this run's setStep has replaced the file, and the
\* earlier list is not the beginning of the new one.
C40_Witness ==
    /\ det.pc = "loop" /\ det.startSt = "torn"
    /\ det.prevWritten /= <<>>
    /\ disk["details"].st = "ok" /\ disk["details"].recs /= <<>>
    /\ ~IsPrefix(det.prevWritten, disk["details"].recs)

\* -------------------------------------- properties, the two stages together
\* Every DetailRecord name is in the enriched checkpoint.
AllNamesEnriched ==
    \A k \in 1..Len(DetailsCheckpoint) :
        DetailsCheckpoint[k].nom \in ScrapNoms(EnrichedCheckpoint)

\* Every name of an eligible record is in the final checkpoint.
AllEligibleNamesFinal ==
    ScrapNoms(EligibleCompanies(EnrichedCheckpoint)) \subseteq ScrapNoms(FinalCheckpoint)

====
